---- MODULE Spec2Model ----
(***************************************************************************)
(* A model of siostam's versioned cache/update core (src/src/core.rs), of   *)
(* the notification fan-out that polls it (src/src/server/actors.rs) and   *)
(* of the graph builder (src/src/subsystem_mapping/mod.rs).                *)
(*                                                                         *)
(* Threads of the program that appear here:                                *)
(*   - one UpdateMasterActor per HTTP worker, ticking on a timer;          *)
(*   - the rebuild threads spawned by Core::check_for_graph_update;        *)
(*   - the configuration watcher thread calling Core::reload_config;       *)
(*   - a request handler calling Core::json / Core::svg.                   *)
(* Every lock acquisition is a step of its own, so that the interleavings  *)
(* of the three std::sync locks of Core are the ones the program has.      *)
(***************************************************************************)
EXTENDS Integers, Sequences, FiniteSets, TLC

\* ---------------------------------------------------------------- bounds
\* Size of the pool of rebuild threads alive at the same time.
MaxThreads == 2
\* interval_between_updates, in clock units.
Interval == 1
\* The environment stops changing sources / configuration at this version.
MaxVersion == 1
\* Longest subscriber list of an actor.
MaxSubs == 2
\* Longest subscriber list of an actor where the lists themselves are studied.
MaxList == 3
\* What the files given to one call of source_to_graph are and hold, all
\* together: files, stored_in_system lines, [system] tables, subsystem
\* tables, dependencies.
MaxItems == 5

\* ------------------------------------------------------------- universes
Actors == {"w1", "w2"}          \* one UpdateMasterActor per HTTP worker
Threads == 1..MaxThreads        \* rebuild threads
Contents == {"A", "B"}          \* what the source trees hold
Configs == {"K1", "K2"}         \* what Siostam.toml holds
Handles == {"h1", "h2"}         \* Recipient<PleaseUpdate> addresses
Sessions == Handles \cup {"h3"}  \* the websocket sessions that may exist
NoThread == 0
NoActor == "none"

VARIABLES
    src,            \* content of the source trees (outside the program)
    config,         \* Core.config : Updatable<SiostamConfig>
    graph,          \* Core.graph  : Updatable<GraphRepresentation>
    mutexHolder,    \* Core.is_graph_updating: thread holding the guard
    mutexPoisoned,  \* ... and its poison flag
    cfgWriter,      \* Core.config RwLock: write guard holder
    cfgReaders,     \* ... read guard holders
    cfgPoisoned,    \* ... poison flag
    graphWriter,    \* Core.graph RwLock: write guard holder
    graphReaders,   \* ... read guard holders
    rb,             \* position of each rebuild thread
    rbRep,          \* the GraphRepresentation a rebuild thread has computed
    rbCfg,          \* ... and the configuration it has computed it from
    everSpawned,    \* history: a rebuild thread has been spawned since
                    \* Core::new
    tickPc,         \* position of each actor inside tick()
    last_version,   \* UpdateMasterActor.last_version
    subscribers,    \* UpdateMasterActor.subscribers
    subInfo,        \* per entry of subscribers: the do_send(PleaseUpdate)
                    \* calls made to it (got), and history of its Subscribe
    readPc,         \* position of a request handler inside Core::json / svg
    closed,         \* the sessions that have stopped: their mailbox is closed
    mailbox,        \* per session under observation, the PleaseUpdate
                    \* messages put in its mailbox so far
    unsubscribed,   \* history: the sessions under observation whose entries
                    \* an Unsubscribe has removed and that have not
                    \* subscribed since
    files,          \* source_to_graph: the files it is given
    buildPc,        \* ... its position
    merged,         \* merge_all_files: the number of files processed
    systems,        \* merge_all_files: systems, then Graph.systems
    subsystems,     \* merge_all_files: subsystems, then Graph.subsystems
    dot,            \* output_to_dot: what the DotBuilder was told to print
    url,            \* construct_from_config: the url of a target
    urlPc,          \* ... its position at that target
    repo_name,      \* ... the repo_name of the target
    watchPc,        \* position of the configuration watcher in reload_config
    watchCfg,       \* ... the configuration it has read from the file
    inbox,          \* per actor, the Subscribe and Unsubscribe messages
                    \* sent to its address and not yet handled
    update_master   \* MyWebSocket.update_master: per session, the actor
                    \* whose address it holds (NoActor: no such session)

coreVars == <<config, graph>>
lockVars == <<mutexHolder, mutexPoisoned, cfgWriter, cfgReaders, cfgPoisoned,
              graphWriter, graphReaders>>
rbVars == <<rb, rbRep, rbCfg, everSpawned>>
actorVars == <<tickPc, last_version, subscribers, subInfo>>
sessionVars == <<closed, mailbox, unsubscribed>>
buildVars == <<files, buildPc, merged, systems, subsystems, dot>>
urlVars == <<url, urlPc, repo_name>>
watchVars == <<watchPc, watchCfg>>
wsVars == <<inbox, update_master>>
vars == <<src, config, graph, mutexHolder, mutexPoisoned, cfgWriter,
          cfgReaders, cfgPoisoned, graphWriter, graphReaders, rb, rbRep, rbCfg, everSpawned,
          tickPc, last_version, subscribers, subInfo, readPc, closed,
          mailbox, unsubscribed, files, buildPc, merged, systems,
          subsystems, dot, url, urlPc, repo_name, watchPc, watchCfg, inbox,
          update_master>>

\* ------------------------------------------------------------ Updatable<T>
\* The field last_check holds an Instant, of which the program reads only
\* last_check.elapsed(): the model keeps, under the name last_check, the
\* time elapsed since that Instant, counted up to Interval + 1 (all values
\* above Interval compare alike).  Instant::now() is therefore 0.  Only
\* graph.last_check is ever read (is_graph_update_required), so the
\* Updatable of the configuration is kept without the field.
InstantNow == [last_check |-> 0]
NoInstant == << >>

\* Faulty variant of Updatable::update: the flag is cleared outside the if.
UpdatableUpdateUnacknowledging(u, new_version, stamp) ==
    IF new_version # u.storage
    THEN stamp @@ [u EXCEPT !.version = u.version + 1,
                            !.has_been_acknowledged = FALSE,
                            !.storage = new_version]
    ELSE stamp @@ [u EXCEPT !.has_been_acknowledged = FALSE]

\* Updatable::from
UpdatableFrom(storage, stamp) ==
    [version |-> 0, storage |-> storage, has_been_acknowledged |-> TRUE]
        @@ stamp

\* Faulty variant of Updatable::update: the new content is stored under the
\* old version number.
UpdatableUpdateKeepVersion(u, new_version, stamp) ==
    IF new_version # u.storage
    THEN stamp @@ [u EXCEPT !.has_been_acknowledged = FALSE,
                            !.storage = new_version]
    ELSE stamp @@ u

\* Faulty variant of Updatable::update: last_check is set inside the if.
UpdatableUpdateStampOnChange(u, new_version, stamp) ==
    IF new_version # u.storage
    THEN stamp @@ [u EXCEPT !.version = u.version + 1,
                            !.has_been_acknowledged = FALSE,
                            !.storage = new_version]
    ELSE u

\* Updatable::update
UpdatableUpdate(u, new_version, stamp) ==
    IF new_version # u.storage
    THEN stamp @@ [u EXCEPT !.version = u.version + 1,
                            !.has_been_acknowledged = FALSE,
                            !.storage = new_version]
    ELSE stamp @@ u

\* Updatable::acknowledge
UpdatableAcknowledge(u) == [u EXCEPT !.has_been_acknowledged = TRUE]

\* GraphRepresentation::from: the two renderings of one graph (json by
\* to_json; svg by the external renderer, taken to return the image of the
\* dot file written for that graph).
GraphRepresentationFrom(g) == [json |-> <<"json", g>>, svg |-> <<"svg", g>>]

NoRep == [json |-> <<>>, svg |-> <<>>]
NoConfig == <<>>

\* ------------------------------------------------------------------ Init
\* Core::new, UpdateMasterActor::new
Init ==
    /\ src = "A"
    /\ config = UpdatableFrom("K1", NoInstant)
    /\ graph = UpdatableFrom(GraphRepresentationFrom("A"), InstantNow)
    /\ mutexHolder = NoThread
    /\ mutexPoisoned = FALSE
    /\ cfgWriter = NoThread
    /\ cfgReaders = {}
    /\ cfgPoisoned = FALSE
    /\ graphWriter = NoThread
    /\ graphReaders = {}
    /\ rb = [t \in Threads |-> "exited"]
    /\ everSpawned = (graph.version > 0)
    /\ rbRep = [t \in Threads |-> NoRep]
    /\ rbCfg = [t \in Threads |-> NoConfig]
    /\ tickPc = [a \in Actors |-> "idle"]
    /\ last_version = [a \in Actors |-> 0]
    /\ subscribers = [a \in Actors |-> <<>>]
    /\ subInfo = [a \in Actors |-> <<>>]
    /\ readPc = "idle"
    /\ closed = {}
    /\ mailbox = [h \in {} |-> 0]
    /\ unsubscribed = {}
    /\ files = <<>>
    /\ buildPc = "idle"
    /\ merged = 0
    /\ systems = <<>>
    /\ subsystems = <<>>
    /\ dot = <<>>
    /\ url = <<>>
    /\ urlPc = "idle"
    /\ repo_name = <<>>
    /\ watchPc = "waiting"
    /\ watchCfg = NoConfig
    /\ inbox = [a \in Actors |-> <<>>]
    /\ update_master = [h \in Sessions |-> NoActor]

\* ----------------------------------------------------------- environment
\* Time passes: graph.last_check.elapsed() grows.
Advance ==
    /\ graph.last_check <= Interval
    /\ graph' = [graph EXCEPT !.last_check = @ + 1]
    /\ UNCHANGED <<src, config, lockVars, rbVars, actorVars, readPc,
                   sessionVars, buildVars, urlVars,
                   watchVars, wsVars>>

\* Somebody pushes to a repository or edits a local folder.
SourceChange ==
    /\ graph.version < MaxVersion
    /\ src' \in Contents \ {src}
    /\ UNCHANGED <<coreVars, lockVars, rbVars, actorVars, readPc, sessionVars,
                   buildVars, urlVars,
                   watchVars, wsVars>>

\* ------------------------------------------------- Core::upgrade_graph
\* A rebuild thread is "exited" (not running), "spawned" (started by
\* thread::spawn, not yet past lock()), inside the body of the if let, or
\* back from upgrade_graph with Ok(()) or with an Err.
InBody == {"locked", "building", "built", "publishing", "acknowledged"}
Returned == {"Ok", "Err"}

\* Faulty variant of the lock: it is granted whoever holds it.
MutexFreeAlways == TRUE

\* self.is_graph_updating.clone().lock() is granted
MutexFree == mutexHolder = NoThread

\* line 161: if let Ok(_guard) = self.is_graph_updating.clone().lock()
UpgradeGraphLock(t) ==
    /\ rb[t] = "spawned"
    /\ MutexFree
    /\ IF mutexPoisoned
       THEN \* lock() is Err: the body is skipped and Ok(()) is returned
            /\ rb' = [rb EXCEPT ![t] = "Ok"]
            /\ UNCHANGED mutexHolder
       ELSE /\ rb' = [rb EXCEPT ![t] = "locked"]
            /\ mutexHolder' = t
    /\ UNCHANGED <<src, coreVars, mutexPoisoned, cfgWriter, cfgReaders,
                   cfgPoisoned, graphWriter, graphReaders, rbRep, rbCfg, actorVars,
                   readPc, sessionVars, buildVars, urlVars,
                   watchVars, wsVars,
                   everSpawned>>

\* Faulty variant of line 163: the graph write lock is taken together with
\* the config write lock, before the build.
UpgradeGraphConfigWriteBoth(t) ==
    /\ rb[t] = "locked"
    /\ cfgWriter = NoThread
    /\ cfgReaders = {}
    /\ graphWriter = NoThread
    /\ graphReaders = {}
    /\ rb' = [rb EXCEPT ![t] = "building"]
    /\ cfgWriter' = t
    /\ graphWriter' = t
    /\ UNCHANGED <<src, coreVars, mutexHolder, mutexPoisoned, cfgReaders,
                   cfgPoisoned, graphReaders, rbRep, rbCfg, actorVars, readPc,
                   sessionVars, buildVars, urlVars,
                   watchVars, wsVars,
                   everSpawned>>

\* line 163: self.config.write()
UpgradeGraphConfigWrite(t) ==
    /\ rb[t] = "locked"
    /\ cfgWriter = NoThread
    /\ cfgReaders = {}
    /\ IF cfgPoisoned
       THEN \* Err(..)?: the guard of is_graph_updating is dropped
            /\ rb' = [rb EXCEPT ![t] = "Err"]
            /\ mutexHolder' = NoThread
            /\ UNCHANGED cfgWriter
       ELSE /\ rb' = [rb EXCEPT ![t] = "building"]
            /\ cfgWriter' = t
            /\ UNCHANGED mutexHolder
    /\ UNCHANGED <<src, coreVars, mutexPoisoned, cfgReaders, cfgPoisoned,
                   graphWriter, graphReaders, rbRep, rbCfg, actorVars, readPc,
                   sessionVars, buildVars, urlVars,
                   watchVars, wsVars,
                   everSpawned>>

\* Faulty variant of lines 168-172: the configuration is acknowledged as
\* soon as the representation is built, before self.graph.write().
UpgradeGraphBuiltAcknowledging(t) ==
    /\ rb[t] = "building"
    /\ rb' = [rb EXCEPT ![t] = "built"]
    /\ rbRep' = [rbRep EXCEPT ![t] = GraphRepresentationFrom(src)]
    /\ rbCfg' = [rbCfg EXCEPT ![t] = config.storage]
    /\ config' = UpdatableAcknowledge(config)
    /\ UNCHANGED <<src, graph, lockVars, actorVars, readPc, sessionVars,
                   buildVars, urlVars,
                   watchVars, wsVars,
                   everSpawned>>

\* lines 168-172, Ok: Graph::construct_from_config, GraphRepresentation::from
UpgradeGraphBuilt(t) ==
    /\ rb[t] = "building"
    /\ rb' = [rb EXCEPT ![t] = "built"]
    /\ rbRep' = [rbRep EXCEPT ![t] = GraphRepresentationFrom(src)]
    /\ rbCfg' = [rbCfg EXCEPT ![t] = config.storage]
    /\ UNCHANGED <<src, coreVars, lockVars, actorVars, readPc, sessionVars,
                   buildVars, urlVars,
                   watchVars, wsVars,
                   everSpawned>>

\* Faulty variant of the Err path: the configuration is acknowledged
\* although nothing was built.
UpgradeGraphErrAcknowledging(t) ==
    /\ rb[t] = "building"
    /\ rb' = [rb EXCEPT ![t] = "Err"]
    /\ config' = UpdatableAcknowledge(config)
    /\ cfgWriter' = NoThread
    /\ mutexHolder' = NoThread
    /\ UNCHANGED <<src, graph, mutexPoisoned, cfgReaders, cfgPoisoned,
                   graphWriter, graphReaders, rbRep, rbCfg, actorVars, readPc,
                   sessionVars, buildVars, urlVars,
                   watchVars, wsVars,
                   everSpawned>>

\* lines 168-172, Err(..)?: both guards are dropped, nothing is stored
UpgradeGraphErr(t) ==
    /\ rb[t] = "building"
    /\ rb' = [rb EXCEPT ![t] = "Err"]
    /\ cfgWriter' = NoThread
    /\ mutexHolder' = NoThread
    /\ UNCHANGED <<src, coreVars, mutexPoisoned, cfgReaders, cfgPoisoned,
                   graphWriter, graphReaders, rbRep, rbCfg, actorVars, readPc,
                   sessionVars, buildVars, urlVars,
                   watchVars, wsVars,
                   everSpawned>>

\* lines 168-172, a panic below (entry.unwrap() of extract_files_from_repo,
\* the expect()s of the dot writer): unwinding drops both guards and
\* poisons both locks, and the thread is gone.
UpgradeGraphPanic(t) ==
    /\ rb[t] = "building"
    /\ rb' = [rb EXCEPT ![t] = "exited"]
    /\ cfgWriter' = NoThread
    /\ cfgPoisoned' = TRUE
    /\ mutexHolder' = NoThread
    /\ mutexPoisoned' = TRUE
    /\ UNCHANGED <<src, coreVars, cfgReaders, graphWriter, graphReaders,
                   rbRep, rbCfg, actorVars, readPc, sessionVars, buildVars, urlVars,
                   watchVars, wsVars,
                   everSpawned>>

\* line 174: self.graph.write()
UpgradeGraphGraphWrite(t) ==
    /\ rb[t] = "built"
    /\ graphWriter = NoThread
    /\ graphReaders = {}
    /\ rb' = [rb EXCEPT ![t] = "publishing"]
    /\ graphWriter' = t
    /\ UNCHANGED <<src, coreVars, mutexHolder, mutexPoisoned, cfgWriter,
                   cfgReaders, cfgPoisoned, graphReaders, rbRep, rbCfg, actorVars,
                   readPc, sessionVars, buildVars, urlVars,
                   watchVars, wsVars,
                   everSpawned>>

\* line 181: (*config).acknowledge()
UpgradeGraphAcknowledge(t) ==
    /\ rb[t] = "publishing"
    /\ config' = UpdatableAcknowledge(config)
    /\ rb' = [rb EXCEPT ![t] = "acknowledged"]
    /\ UNCHANGED <<src, graph, lockVars, rbRep, rbCfg, actorVars, readPc,
                   sessionVars, buildVars, urlVars,
                   watchVars, wsVars,
                   everSpawned>>

\* lines 182-185: (*graph_storage).update(graph_representation), then the
\* three guards are dropped and Ok(()) is returned
UpgradeGraphUpdate(t) ==
    /\ rb[t] = "acknowledged"
    /\ graph' = UpdatableUpdate(graph, rbRep[t], InstantNow)
    /\ rb' = [rb EXCEPT ![t] = "Ok"]
    /\ rbRep' = [rbRep EXCEPT ![t] = NoRep]
    /\ rbCfg' = [rbCfg EXCEPT ![t] = NoConfig]
    /\ graphWriter' = NoThread
    /\ cfgWriter' = NoThread
    /\ mutexHolder' = NoThread
    /\ UNCHANGED <<src, config, mutexPoisoned, cfgReaders, cfgPoisoned,
                   graphReaders, actorVars, readPc, sessionVars, buildVars, urlVars,
                   watchVars, wsVars,
                   everSpawned>>

UpgradeGraph(t) ==
    \/ UpgradeGraphLock(t)
    \/ UpgradeGraphConfigWrite(t)
    \/ UpgradeGraphBuilt(t)
    \/ UpgradeGraphErr(t)
    \/ UpgradeGraphPanic(t)
    \/ UpgradeGraphGraphWrite(t)
    \/ UpgradeGraphAcknowledge(t)
    \/ UpgradeGraphUpdate(t)

\* check_for_graph_update lines 126-129: the closure of the rebuild thread
\* logs what upgrade_graph has returned, and the thread ends
RebuildThreadExit(t) ==
    /\ rb[t] \in Returned
    /\ rb' = [rb EXCEPT ![t] = "exited"]
    /\ UNCHANGED <<src, coreVars, lockVars, rbRep, rbCfg, actorVars, readPc,
                   sessionVars, buildVars, urlVars,
                   watchVars, wsVars,
                   everSpawned>>

\* Faulty variant of reload_config: the configuration is stored without
\* the write lock.
ReloadConfigUnlocked(k) ==
    /\ k # config.storage => config.version < MaxVersion
    /\ config' = IF cfgPoisoned THEN config
                 ELSE UpdatableUpdate(config, k, NoInstant)
    /\ UNCHANGED <<src, graph, lockVars, rbVars, actorVars, readPc,
                   sessionVars, buildVars, urlVars,
                   watchVars, wsVars>>

\* ------------------------------------------------- Core::reload_config
\* The watcher thread has seen a write of the configuration file, which
\* read_config_in_workdir finds to hold configuration k (line 98); then
\* self.config.write() is granted and update(config) stores it (lines
\* 100-108).  What the file holds is not part of the state, so reading it
\* at the moment the lock is granted is no restriction.
ReloadConfig(k) ==
    /\ k # config.storage => config.version < MaxVersion
    /\ cfgWriter = NoThread
    /\ cfgReaders = {}
    /\ config' = IF cfgPoisoned THEN config
                 ELSE UpdatableUpdate(config, k, NoInstant)
    /\ UNCHANGED <<src, graph, lockVars, rbVars, actorVars, readPc,
                   sessionVars, buildVars, urlVars,
                   watchVars, wsVars>>

\* ------------------------------------------- Core::json, Core::svg
\* self.graph.read() is granted to a request handler
CoreReadBegin ==
    /\ readPc = "idle"
    /\ graphWriter = NoThread
    /\ readPc' = "reading"
    /\ graphReaders' = graphReaders \cup {"http"}
    /\ UNCHANGED <<src, coreVars, mutexHolder, mutexPoisoned, cfgWriter,
                   cfgReaders, cfgPoisoned, graphWriter, rbVars, actorVars,
                   sessionVars, buildVars, urlVars,
                   watchVars, wsVars>>

\* lock.deref().storage.json() / .svg()
CoreJson == graph.storage.json
CoreSvg == graph.storage.svg

\* Faulty variant of Core::json / Core::svg: the handler takes the read
\* lock of the configuration before it drops the read guard of the graph.
CoreReadEndAfterConfigRead ==
    /\ readPc = "reading"
    /\ cfgWriter = NoThread
    /\ readPc' = "idle"
    /\ graphReaders' = graphReaders \ {"http"}
    /\ UNCHANGED <<src, coreVars, mutexHolder, mutexPoisoned, cfgWriter,
                   cfgReaders, cfgPoisoned, graphWriter, rbVars, actorVars,
                   sessionVars, buildVars, urlVars,
                   watchVars, wsVars>>

\* the clone is returned and the read guard dropped
CoreReadEnd ==
    /\ readPc = "reading"
    /\ readPc' = "idle"
    /\ graphReaders' = graphReaders \ {"http"}
    /\ UNCHANGED <<src, coreVars, mutexHolder, mutexPoisoned, cfgWriter,
                   cfgReaders, cfgPoisoned, graphWriter, rbVars, actorVars,
                   sessionVars, buildVars, urlVars,
                   watchVars, wsVars>>

\* ------------------------------------------ Core::check_for_graph_update
\* Core::is_graph_update_required, line 146
IsGraphUpdateRequired ==
    \/ ~config.has_been_acknowledged
    \/ graph.last_check > Interval

\* line 119: core.is_graph_updating.try_lock().is_err(); the guard of a
\* successful try_lock is a temporary of the condition and is dropped there.
TryLockIsErr == mutexHolder # NoThread \/ mutexPoisoned

\* Core::version
CoreVersion == graph.version

\* The thread that thread::spawn starts: the first free slot of the pool.
FreeThreads == {t \in Threads : rb[t] = "exited"}
NextThread == CHOOSE t \in FreeThreads : \A u \in FreeThreads : t <= u

\* Faulty variant of send_please_update_message: the loop stops after the
\* first entry.
SendPleaseUpdateMessageFirst(info) ==
    [i \in 1..Len(info) |->
        IF i = 1 THEN [info[i] EXCEPT !.got = @ + 1] ELSE info[i]]

\* UpdateMasterActor::send_please_update_message: one do_send per entry
SendPleaseUpdateMessage(info) ==
    [i \in 1..Len(info) |-> [info[i] EXCEPT !.got = @ + 1]]

\* subscr.do_send(PleaseUpdate) is Ok: the mailbox of the session is open
DoSendOk(h) == h \notin closed

\* the message of a successful do_send is in the mailbox
Put(mb, h) == IF h \in DOMAIN mb THEN [mb EXCEPT ![h] = @ + 1] ELSE mb

\* Faulty variant of the loop of send_please_update_message: the first
\* failed do_send ends it.
RECURSIVE DoSendUntilErr(_, _, _)
DoSendUntilErr(subs, i, mb) ==
    IF i > Len(subs) \/ ~DoSendOk(subs[i]) THEN mb
    ELSE DoSendUntilErr(subs, i + 1, Put(mb, subs[i]))

\* Faulty variant of the loop: a handle is sent one message however many
\* entries it has.
RECURSIVE DoSendOncePerHandle(_, _, _)
DoSendOncePerHandle(subs, i, mb) ==
    IF i > Len(subs) THEN mb
    ELSE DoSendOncePerHandle(subs, i + 1,
            IF DoSendOk(subs[i]) /\ \A j \in 1..(i - 1) : subs[j] # subs[i]
            THEN Put(mb, subs[i]) ELSE mb)

\* UpdateMasterActor::send_please_update_message, what the loop puts in
\* the mailboxes from entry i on: a do_send that fails is logged and the
\* loop goes on
RECURSIVE DoSendAll(_, _, _)
DoSendAll(subs, i, mb) ==
    IF i > Len(subs) THEN mb
    ELSE DoSendAll(subs, i + 1,
            IF DoSendOk(subs[i]) THEN Put(mb, subs[i]) ELSE mb)

\* the run_interval timer of started() fires and tick() is entered;
\* is_graph_update_required, line 136: self.config.read()
TickConfigRead(a) ==
    /\ tickPc[a] = "idle"
    /\ cfgWriter = NoThread
    /\ IF cfgPoisoned
       THEN \* Err(..)? through check_for_graph_update and tick
            /\ tickPc' = [tickPc EXCEPT ![a] = "Err"]
            /\ UNCHANGED cfgReaders
       ELSE /\ tickPc' = [tickPc EXCEPT ![a] = "graph"]
            /\ cfgReaders' = cfgReaders \cup {a}
    /\ UNCHANGED <<src, coreVars, mutexHolder, mutexPoisoned, cfgWriter,
                   cfgPoisoned, graphWriter, graphReaders, rbVars,
                   last_version, subscribers, subInfo, readPc, sessionVars,
                   buildVars, urlVars,
                   watchVars, wsVars>>

\* is_graph_update_required, lines 140-148: self.graph.read(), the answer,
\* both read guards dropped; check_for_graph_update line 114
TickGraphRead(a) ==
    /\ tickPc[a] = "graph"
    /\ graphWriter = NoThread
    /\ tickPc' = [tickPc EXCEPT ![a] =
                     IF IsGraphUpdateRequired THEN "try" ELSE "version"]
    /\ cfgReaders' = cfgReaders \ {a}
    /\ UNCHANGED <<src, coreVars, mutexHolder, mutexPoisoned, cfgWriter,
                   cfgPoisoned, graphWriter, graphReaders, rbVars,
                   last_version, subscribers, subInfo, readPc, sessionVars,
                   buildVars, urlVars,
                   watchVars, wsVars>>

\* check_for_graph_update lines 119-121: the lock is taken or poisoned
TickSkip(a) ==
    /\ tickPc[a] = "try"
    /\ TryLockIsErr
    /\ tickPc' = [tickPc EXCEPT ![a] = "version"]
    /\ UNCHANGED <<src, coreVars, lockVars, rbVars, last_version, subscribers,
                   subInfo, readPc, sessionVars, buildVars, urlVars,
                   watchVars, wsVars>>

\* check_for_graph_update lines 119-132: try_lock succeeded, its guard is
\* gone, and thread::spawn starts a thread that will call upgrade_graph
TickSpawn(a) ==
    /\ tickPc[a] = "try"
    /\ ~TryLockIsErr
    /\ FreeThreads # {}
    /\ rb' = [rb EXCEPT ![NextThread] = "spawned"]
    /\ everSpawned' = TRUE
    /\ tickPc' = [tickPc EXCEPT ![a] = "version"]
    /\ UNCHANGED <<src, coreVars, lockVars, rbRep, rbCfg, last_version, subscribers,
                   subInfo, readPc, sessionVars, buildVars, urlVars,
                   watchVars, wsVars>>

\* Faulty variant of tick: the version sent for is not recorded.
TickVersionForgetful(a) ==
    /\ tickPc[a] = "version"
    /\ graphWriter = NoThread
    /\ IF CoreVersion # last_version[a]
       THEN /\ subInfo' = [subInfo EXCEPT ![a] = SendPleaseUpdateMessage(@)]
            /\ mailbox' = DoSendAll(subscribers[a], 1, mailbox)
       ELSE UNCHANGED <<subInfo, mailbox>>
    /\ tickPc' = [tickPc EXCEPT ![a] = "idle"]
    /\ UNCHANGED <<src, coreVars, lockVars, rbVars, last_version,
                   subscribers, readPc, closed, unsubscribed, buildVars, urlVars,
                   watchVars, wsVars>>

\* tick lines 56-62: self.core.version(), the comparison, the notification
TickVersion(a) ==
    /\ tickPc[a] = "version"
    /\ graphWriter = NoThread
    /\ IF CoreVersion # last_version[a]
       THEN /\ last_version' = [last_version EXCEPT ![a] = CoreVersion]
            /\ subInfo' = [subInfo EXCEPT ![a] = SendPleaseUpdateMessage(@)]
            /\ mailbox' = DoSendAll(subscribers[a], 1, mailbox)
       ELSE UNCHANGED <<last_version, subInfo, mailbox>>
    /\ tickPc' = [tickPc EXCEPT ![a] = "idle"]
    /\ UNCHANGED <<src, coreVars, lockVars, rbVars, subscribers, readPc,
                   closed, unsubscribed, buildVars, urlVars,
                   watchVars, wsVars>>

\* Faulty variant of tick: the error of check_for_graph_update is dropped
\* and the tick goes on to line 56.
TickErrIgnored(a) ==
    /\ tickPc[a] = "Err"
    /\ tickPc' = [tickPc EXCEPT ![a] = "version"]
    /\ UNCHANGED <<src, coreVars, lockVars, rbVars, last_version, subscribers,
                   subInfo, readPc, sessionVars, buildVars, urlVars,
                   watchVars, wsVars>>

\* started() lines 35-37: tick has returned an error, which is logged;
\* the actor waits for the next firing of its timer
TickErr(a) ==
    /\ tickPc[a] = "Err"
    /\ tickPc' = [tickPc EXCEPT ![a] = "idle"]
    /\ UNCHANGED <<src, coreVars, lockVars, rbVars, last_version, subscribers,
                   subInfo, readPc, sessionVars, buildVars, urlVars,
                   watchVars, wsVars>>

Tick(a) ==
    \/ TickConfigRead(a)
    \/ TickGraphRead(a)
    \/ TickSkip(a)
    \/ TickSpawn(a)
    \/ TickVersion(a)
    \/ TickErr(a)

\* ------------------------------------------- Subscribe / Unsubscribe
\* Handler<Subscribe>::handle; an actor handles a message between two ticks
Subscribe(a, h) ==
    /\ tickPc[a] = "idle"
    /\ subscribers' = [subscribers EXCEPT ![a] = Append(@, h)]
    /\ subInfo' = [subInfo EXCEPT ![a] =
                      Append(@, [lv0 |-> last_version[a],
                                 ver0 |-> graph.version, got |-> 0])]
    /\ unsubscribed' = unsubscribed \ {h}
    /\ UNCHANGED <<src, coreVars, lockVars, rbVars, tickPc, last_version, readPc,
                   closed, mailbox, buildVars, urlVars,
                   watchVars>>

\* Faulty variant of retain: only the first entry equal to h goes.
RetainFirst(subs, h) ==
    IF \E i \in 1..Len(subs) : subs[i] = h
    THEN LET k == CHOOSE i \in 1..Len(subs) :
                      subs[i] = h /\ \A j \in 1..(i - 1) : subs[j] # h
         IN  SubSeq(subs, 1, k - 1) \o SubSeq(subs, k + 1, Len(subs))
    ELSE subs

\* self.subscribers.retain(|x| x != &msg.0)
Retain(subs, h) == SelectSeq(subs, LAMBDA x : x # h)

\* history: the entries of info at the positions retain keeps
RECURSIVE Kept(_, _, _, _)
Kept(info, subs, h, i) ==
    IF i > Len(subs) THEN <<>>
    ELSE (IF subs[i] # h THEN <<info[i]>> ELSE <<>>)
            \o Kept(info, subs, h, i + 1)

\* Handler<Unsubscribe>::handle
Unsubscribe(a, h) ==
    /\ tickPc[a] = "idle"
    /\ subscribers' = [subscribers EXCEPT ![a] = Retain(@, h)]
    /\ subInfo' = [subInfo EXCEPT ![a] = Kept(@, subscribers[a], h, 1)]
    /\ unsubscribed' =
            IF h \in DOMAIN mailbox
                  /\ \E i \in 1..Len(subscribers[a]) : subscribers[a][i] = h
            THEN unsubscribed \cup {h}
            ELSE unsubscribed
    /\ UNCHANGED <<src, coreVars, lockVars, rbVars, tickPc, last_version, readPc,
                   closed, mailbox, buildVars, urlVars,
                   watchVars>>

\* -------------------------------------------------------- specifications
\* What the closure of a rebuild thread does with the value upgrade_graph
\* has returned is local to the thread: the return, the log line and the
\* end of the thread are taken as one step of the program, of which the
\* state in between shows the returned value.
NoneReturned == \A t \in Threads : rb[t] \notin Returned

\* The server with two HTTP workers, hence two UpdateMasterActors sharing
\* the core, with the configuration watcher and a request handler; no
\* websocket session is open.
Next ==
    \/ \E t \in Threads : RebuildThreadExit(t)
    \/ NoneReturned /\ Advance
    \/ NoneReturned /\ SourceChange
    \/ \E t \in Threads : NoneReturned /\ UpgradeGraphLock(t)
    \/ \E t \in Threads : NoneReturned /\ UpgradeGraphConfigWrite(t)
    \/ \E t \in Threads : NoneReturned /\ UpgradeGraphBuilt(t)
    \/ \E t \in Threads : NoneReturned /\ UpgradeGraphErr(t)
    \/ \E t \in Threads : NoneReturned /\ UpgradeGraphPanic(t)
    \/ \E t \in Threads : NoneReturned /\ UpgradeGraphGraphWrite(t)
    \/ \E t \in Threads : NoneReturned /\ UpgradeGraphAcknowledge(t)
    \/ \E t \in Threads : NoneReturned /\ UpgradeGraphUpdate(t)
    \/ \E a \in Actors : NoneReturned /\ TickConfigRead(a)
    \/ \E a \in Actors : NoneReturned /\ TickGraphRead(a)
    \/ \E a \in Actors : NoneReturned /\ TickSkip(a)
    \/ \E a \in Actors : NoneReturned /\ TickSpawn(a)
    \/ \E a \in Actors : NoneReturned /\ TickVersion(a)
    \/ \E a \in Actors : NoneReturned /\ TickErr(a)
    \/ \E k \in Configs : NoneReturned /\ ReloadConfig(k)
    \/ NoneReturned /\ CoreReadBegin
    \/ NoneReturned /\ CoreReadEnd

Spec == Init /\ [][Next]_vars

\* The server with one HTTP worker, to whose UpdateMasterActor websocket
\* sessions subscribe and unsubscribe; the configuration file is left alone.
FanActors == {"w1"}

NextFan ==
    \/ \E t \in Threads : RebuildThreadExit(t)
    \/ NoneReturned /\ Advance
    \/ NoneReturned /\ SourceChange
    \/ \E t \in Threads : NoneReturned /\ UpgradeGraphLock(t)
    \/ \E t \in Threads : NoneReturned /\ UpgradeGraphConfigWrite(t)
    \/ \E t \in Threads : NoneReturned /\ UpgradeGraphBuilt(t)
    \/ \E t \in Threads : NoneReturned /\ UpgradeGraphErr(t)
    \/ \E t \in Threads : NoneReturned /\ UpgradeGraphPanic(t)
    \/ \E t \in Threads : NoneReturned /\ UpgradeGraphGraphWrite(t)
    \/ \E t \in Threads : NoneReturned /\ UpgradeGraphAcknowledge(t)
    \/ \E t \in Threads : NoneReturned /\ UpgradeGraphUpdate(t)
    \/ \E a \in FanActors : NoneReturned /\ TickConfigRead(a)
    \/ \E a \in FanActors : NoneReturned /\ TickGraphRead(a)
    \/ \E a \in FanActors : NoneReturned /\ TickSkip(a)
    \/ \E a \in FanActors : NoneReturned /\ TickSpawn(a)
    \/ \E a \in FanActors : NoneReturned /\ TickVersion(a)
    \/ \E a \in FanActors : NoneReturned /\ TickErr(a)
    \/ \E a \in FanActors, h \in Handles :
            /\ NoneReturned /\ Len(subscribers[a]) < MaxSubs
            /\ Subscribe(a, h) /\ UNCHANGED wsVars
    \/ \E a \in FanActors, h \in Handles :
            NoneReturned /\ Unsubscribe(a, h) /\ UNCHANGED wsVars

SpecFan == Init /\ [][NextFan]_vars

\* The same server as it runs: the run_interval timer of started() keeps
\* firing and the arbiter runs each tick to its end when the locks allow
\* (actors.rs lines 34-38), and the operating system runs every spawned
\* rebuild thread (core.rs line 124).  Nothing makes the sources, the clock
\* or the sessions act.
TickStep(a) == NoneReturned /\ Tick(a)

RebuildStep(t) == RebuildThreadExit(t) \/ (NoneReturned /\ UpgradeGraph(t))

FairFan ==
    /\ \A a \in FanActors : WF_vars(TickStep(a))
    /\ \A t \in Threads : WF_vars(RebuildStep(t))

SpecFanLive == Init /\ [][NextFan]_vars /\ FairFan

\* The server of Spec as it runs.  The timers keep firing and every thread
\* is scheduled; a thread blocked in lock(), read() or write() is woken
\* when the lock is released, so that it is granted a lock that is free
\* again and again (strong fairness of its step).  The ticks of an actor
\* are UPDATE_INTERVAL apart (actors.rs line 10) and a tick holds the read
\* guard of the configuration from line 136 to line 148 of core.rs, where
\* it never waits: the guards of the actors do not overlap for ever.
\* Nothing makes the sources, the clock, the watcher or the requests act,
\* but a request that holds the read guard of the graph returns (line 197
\* or 207 of core.rs).
FairCore ==
    /\ \A a \in Actors : SF_vars(TickStep(a))
    /\ \A t \in Threads : SF_vars(RebuildStep(t))
    /\ WF_vars(CoreReadEnd)
    /\ []<>(cfgReaders = {})

SpecLive == Init /\ [][Next]_vars /\ FairCore

\* The UpdateMasterActor of one worker and its websocket sessions, taken at
\* a moment when the core has published v new versions that the actor has
\* not yet seen; sessions subscribe, unsubscribe and stop, the actor ticks.
RECURSIVE Published(_)
Published(v) ==
    IF v = 0 THEN UpdatableFrom(GraphRepresentationFrom("A"), InstantNow)
    ELSE UpdatableUpdate(Published(v - 1),
            GraphRepresentationFrom(IF v % 2 = 1 THEN "B" ELSE "A"),
            InstantNow)

InitSubs ==
    /\ graph \in {Published(v) : v \in 0..MaxVersion}
    /\ src = graph.storage.json[2]
    /\ config = UpdatableFrom("K1", NoInstant)
    /\ mutexHolder = NoThread
    /\ mutexPoisoned = FALSE
    /\ cfgWriter = NoThread
    /\ cfgReaders = {}
    /\ cfgPoisoned = FALSE
    /\ graphWriter = NoThread
    /\ graphReaders = {}
    /\ rb = [t \in Threads |-> "exited"]
    /\ everSpawned = (graph.version > 0)
    /\ rbRep = [t \in Threads |-> NoRep]
    /\ rbCfg = [t \in Threads |-> NoConfig]
    /\ tickPc = [a \in Actors |-> "idle"]
    /\ last_version = [a \in Actors |-> 0]
    /\ subscribers = [a \in Actors |-> <<>>]
    /\ subInfo = [a \in Actors |-> <<>>]
    /\ readPc = "idle"
    /\ closed = {}
    /\ mailbox = [h \in Sessions |-> 0]
    /\ unsubscribed = {}
    /\ files = <<>>
    /\ buildPc = "idle"
    /\ merged = 0
    /\ systems = <<>>
    /\ subsystems = <<>>
    /\ dot = <<>>
    /\ url = <<>>
    /\ urlPc = "idle"
    /\ repo_name = <<>>
    /\ watchPc = "waiting"
    /\ watchCfg = NoConfig
    /\ inbox = [a \in Actors |-> <<>>]
    /\ update_master = [h \in Sessions |-> NoActor]

\* MyWebSocket stops (the connection is gone): its mailbox is closed.  The
\* Unsubscribe that stopped() sends is handled by the actor later.
SessionStopped(h) ==
    /\ h \notin closed
    /\ closed' = closed \cup {h}
    /\ UNCHANGED <<src, coreVars, lockVars, rbVars, actorVars, readPc,
                   mailbox, unsubscribed, buildVars, urlVars,
                   watchVars>>

NextSubs ==
    \/ \E a \in FanActors : TickConfigRead(a)
    \/ \E a \in FanActors : TickGraphRead(a)
    \/ \E a \in FanActors : TickVersion(a)
    \/ \E a \in FanActors, h \in Sessions :
            /\ Len(subscribers[a]) < MaxList
            /\ Subscribe(a, h) /\ UNCHANGED wsVars
    \/ \E a \in FanActors, h \in Sessions :
            Unsubscribe(a, h) /\ UNCHANGED wsVars
    \/ \E h \in Sessions : SessionStopped(h) /\ UNCHANGED wsVars

SpecSubs == InitSubs /\ [][NextSubs]_vars

\* ------------------------------------------- the websocket sessions
\* MyWebSocket of src/src/server/websocket.rs.  index() creates a session
\* with the address of the UpdateMasterActor of its worker; started() sends
\* Subscribe(ctx.address().recipient()) to that address, stopped() sends
\* Unsubscribe with the same recipient.  Addr::do_send puts the message at
\* the end of the mailbox of the actor, and the actor takes the messages
\* of its mailbox from the front, one at a time, between two ticks.  The
\* Mutex around the address is held for the do_send only, which does not
\* panic: it is never poisoned, and the Err arms of lines 61 and 78 are
\* not taken.
Message(kind, h) == [kind |-> kind, recipient |-> h]

\* MyWebSocket::new and started()
WsStarted(h, a) ==
    /\ update_master[h] = NoActor
    /\ h \notin closed
    /\ update_master' = [update_master EXCEPT ![h] = a]
    /\ inbox' = [inbox EXCEPT ![a] = Append(@, Message("Subscribe", h))]
    /\ UNCHANGED <<src, coreVars, lockVars, rbVars, actorVars, readPc,
                   sessionVars, buildVars, urlVars, watchVars>>

\* Faulty variant of stopped(): the session goes without a word.
WsStoppedSilently(h) ==
    /\ update_master[h] # NoActor
    /\ SessionStopped(h)
    /\ UNCHANGED wsVars

\* stopped(): the session is gone, its last act is the Unsubscribe
WsStopped(h) ==
    /\ update_master[h] # NoActor
    /\ SessionStopped(h)
    /\ inbox' = [inbox EXCEPT ![update_master[h]] =
                    Append(@, Message("Unsubscribe", h))]
    /\ UNCHANGED update_master

\* the actor handles the message at the front of its mailbox
HandleMessage(a) ==
    /\ inbox[a] # <<>>
    /\ LET msg == Head(inbox[a])
       IN  IF msg.kind = "Subscribe"
           THEN Subscribe(a, msg.recipient)
           ELSE Unsubscribe(a, msg.recipient)
    /\ inbox' = [inbox EXCEPT ![a] = Tail(@)]
    /\ UNCHANGED update_master

NextWs ==
    \/ \E a \in Actors : TickConfigRead(a)
    \/ \E a \in Actors : TickGraphRead(a)
    \/ \E a \in Actors : TickVersion(a)
    \/ \E h \in Sessions, a \in Actors : WsStarted(h, a)
    \/ \E h \in Sessions : WsStopped(h)
    \/ \E a \in Actors : HandleMessage(a)

SpecWs == InitSubs /\ [][NextWs]_vars

\* ---------------------------------- the watcher of the configuration file
\* watch() of src/src/config.rs calls Core::reload_config at every write of
\* the file, and logs what it returns.  reload_config step by step: the
\* file is read and parsed (core.rs line 98), then the write lock of the
\* configuration is taken and the configuration stored (lines 100-108).
\* The file holds a configuration, or something that is not TOML of a
\* configuration, or it cannot be read.
MaxReloads == 2
FileContents == Configs \cup {"invalid", "unreadable"}

\* read_config_in_workdir
read_config_in_workdir(c) ==
    IF c = "unreadable" THEN [ok |-> FALSE, value |-> NoConfig]  \* line 34
    ELSE IF c = "invalid" THEN [ok |-> FALSE, value |-> NoConfig]  \* line 39
    ELSE [ok |-> TRUE, value |-> c]

\* Faulty variant of line 98 of core.rs: the result of the read is not
\* looked at.
ReloadConfigReadUnchecked(c) ==
    /\ watchPc = "waiting"
    /\ (c # config.storage => config.version < MaxReloads)
    /\ watchPc' = "write"
    /\ watchCfg' = c
    /\ UNCHANGED <<src, coreVars, lockVars, rbVars, actorVars, readPc,
                   sessionVars, buildVars, urlVars, wsVars>>

\* watch() receives a write event; reload_config line 98
ReloadConfigRead(c) ==
    /\ watchPc = "waiting"
    /\ LET r == read_config_in_workdir(c)
       IN  IF r.ok
           THEN /\ (r.value # config.storage => config.version < MaxReloads)
                /\ watchPc' = "write"
           ELSE watchPc' = "Err"
    /\ watchCfg' = c
    /\ UNCHANGED <<src, coreVars, lockVars, rbVars, actorVars, readPc,
                   sessionVars, buildVars, urlVars, wsVars>>

\* Faulty variant of lines 100-108: the configuration is taken for changed
\* whatever it holds.
ReloadConfigStoreAlways ==
    /\ watchPc = "write"
    /\ cfgWriter = NoThread
    /\ cfgReaders = {}
    /\ IF cfgPoisoned
       THEN watchPc' = "Err" /\ UNCHANGED config
       ELSE /\ config' = [config EXCEPT !.storage = watchCfg,
                                        !.has_been_acknowledged = FALSE]
            /\ watchPc' = "Ok"
    /\ UNCHANGED <<src, graph, lockVars, rbVars, actorVars, readPc,
                   sessionVars, buildVars, urlVars, watchCfg,
                   wsVars>>

\* reload_config lines 100-108: self.config.write(), update(config), and
\* the guard is dropped
ReloadConfigStore ==
    /\ watchPc = "write"
    /\ cfgWriter = NoThread
    /\ cfgReaders = {}
    /\ IF cfgPoisoned
       THEN watchPc' = "Err" /\ UNCHANGED config
       ELSE /\ config' = UpdatableUpdate(config, watchCfg, NoInstant)
            /\ watchPc' = "Ok"
    /\ UNCHANGED <<src, graph, lockVars, rbVars, actorVars, readPc,
                   sessionVars, buildVars, urlVars, watchCfg,
                   wsVars>>

\* watch() lines 89-92: what reload_config returned is logged, and the
\* watcher waits for the next event
WatchLogged ==
    /\ watchPc \in {"Ok", "Err"}
    /\ watchPc' = "waiting"
    /\ watchCfg' = NoConfig
    /\ UNCHANGED <<src, coreVars, lockVars, rbVars, actorVars, readPc,
                   sessionVars, buildVars, urlVars, wsVars>>

\* The server with one HTTP worker and the watcher of the configuration
\* file; no websocket session is open and no request is made.
NextWatch ==
    \/ \E t \in Threads : RebuildThreadExit(t)
    \/ NoneReturned /\ Advance
    \/ NoneReturned /\ SourceChange
    \/ \E t \in Threads : NoneReturned /\ UpgradeGraphLock(t)
    \/ \E t \in Threads : NoneReturned /\ UpgradeGraphConfigWrite(t)
    \/ \E t \in Threads : NoneReturned /\ UpgradeGraphBuilt(t)
    \/ \E t \in Threads : NoneReturned /\ UpgradeGraphErr(t)
    \/ \E t \in Threads : NoneReturned /\ UpgradeGraphPanic(t)
    \/ \E t \in Threads : NoneReturned /\ UpgradeGraphGraphWrite(t)
    \/ \E t \in Threads : NoneReturned /\ UpgradeGraphAcknowledge(t)
    \/ \E t \in Threads : NoneReturned /\ UpgradeGraphUpdate(t)
    \/ \E a \in FanActors : NoneReturned /\ TickConfigRead(a)
    \/ \E a \in FanActors : NoneReturned /\ TickGraphRead(a)
    \/ \E a \in FanActors : NoneReturned /\ TickSkip(a)
    \/ \E a \in FanActors : NoneReturned /\ TickSpawn(a)
    \/ \E a \in FanActors : NoneReturned /\ TickVersion(a)
    \/ \E a \in FanActors : NoneReturned /\ TickErr(a)
    \/ \E c \in FileContents : NoneReturned /\ ReloadConfigRead(c)
    \/ NoneReturned /\ ReloadConfigStore
    \/ NoneReturned /\ WatchLogged

SpecWatch == Init /\ [][NextWatch]_vars

\* ------------------------------------------------ the graph builder
\* source_to_graph of src/src/subsystem_mapping/mod.rs, step by step: the
\* files are read and parsed, then merged one by one, then the references
\* are resolved.  An Option<T> is the empty sequence (None) or the sequence
\* of one value (Some); a Vec and an Option<Vec> are sequences (a missing
\* Vec is iterated over as an empty one).  Indices are those of the program,
\* counted from 0.  Of an entity the model keeps id, name, parent_system and
\* dependencies (not repo_name, path, description, how_to, why).

None == <<>>
Some(x) == <<x>>
IsSome(o) == o # None
Unwrap(o) == o[1]
\* Option::or
OptionOr(a, b) == IF IsSome(a) THEN a ELSE b

\* What the [system] table of a file may hold.
SystemSources == [id : {None, Some("a")}, name : {None, Some("b")}]
\* What a dependency of a declared subsystem may be: a table under the key
\* dependency or dependencies; here all are written under the second.
DependencySources == [key : {"dependencies"}, id : {None, Some("a")}]
\* The [[subsystem]] and [[subsystems]] tables of a file, as they are when
\* written without dependencies.
SubsystemTables ==
    [key : {"subsystem", "subsystems"},
     id : {None, Some("a")}, name : {None, Some("b")},
     dependencies : {<<>>}]

\* A file as the walk through a repository finds it: unreadable, or
\* readable and not TOML, or TOML; and what it holds, here nothing yet.
FoundFiles ==
    [kind : {"unreadable", "invalid", "toml"}, stored_in_system : {None},
     system : {None}, tables : {<<>>}]

\* The number of dependencies in the tables k.. of a file, and the number
\* of things the files i.. are and hold.
RECURSIVE DependenciesIn(_, _)
DependenciesIn(tables, k) ==
    IF k > Len(tables) THEN 0
    ELSE Len(tables[k].dependencies) + DependenciesIn(tables, k + 1)

RECURSIVE Items(_, _)
Items(fs, i) ==
    IF i > Len(fs) THEN 0
    ELSE 1 + (IF IsSome(fs[i].stored_in_system) THEN 1 ELSE 0)
           + (IF IsSome(fs[i].system) THEN 1 ELSE 0)
           + Len(fs[i].tables)
           + DependenciesIn(fs[i].tables, 1)
           + Items(fs, i + 1)

\* toml::from_str groups the tables of a file by their key, and the
\* dependencies of a table by theirs
TablesOf(f, key) ==
    LET sel == SelectSeq(f.tables, LAMBDA t : t.key = key)
    IN  [i \in 1..Len(sel) |->
            [id |-> sel[i].id, name |-> sel[i].name,
             dependency |->
                 SelectSeq(sel[i].dependencies,
                           LAMBDA d : d.key = "dependency"),
             dependencies |->
                 SelectSeq(sel[i].dependencies,
                           LAMBDA d : d.key = "dependencies")]]

\* read_file: Err for a file that cannot be read or is not TOML
ReadFile(f) ==
    IF f.kind = "toml"
    THEN [ok |-> TRUE,
          value |-> [stored_in_system |-> f.stored_in_system,
                     system |-> f.system,
                     subsystem |-> TablesOf(f, "subsystem"),
                     subsystems |-> TablesOf(f, "subsystems")]]
    ELSE [ok |-> FALSE, value |-> f.kind]

\* Faulty variant of the collect: the files that fail are left out.
ReadFilesSkipping(fs) ==
    LET good == SelectSeq(fs, LAMBDA f : ReadFile(f).ok)
    IN  [ok |-> TRUE, value |-> [i \in 1..Len(good) |-> ReadFile(good[i]).value]]

\* merge_all_files lines 441-442: files.iter().map(read_file).collect()
ReadFiles(fs) ==
    IF \E i \in 1..Len(fs) : ~ReadFile(fs[i]).ok
    THEN [ok |-> FALSE, value |-> <<>>]
    ELSE [ok |-> TRUE, value |-> [i \in 1..Len(fs) |-> ReadFile(fs[i]).value]]

iterate_over_option_vecs(vec_a, vec_b) == vec_a \o vec_b

ReferenceByIndexNew(id) == [id |-> id, index |-> None]

\* Faulty variant of extract_system: a missing name stays empty.
ExtractSystemNoBackup(file) ==
    IF file.system = None THEN None
    ELSE LET system == Unwrap(file.system)
         IN  IF system.id = None /\ system.name = None THEN None
             ELSE Some([id |-> Unwrap(OptionOr(system.id, system.name)),
                        name |-> IF IsSome(system.name)
                                 THEN Unwrap(system.name) ELSE "",
                        parent_system |->
                            IF IsSome(file.stored_in_system)
                            THEN Some(ReferenceByIndexNew(
                                        Unwrap(file.stored_in_system)))
                            ELSE None])

\* Faulty variant of extract_system: stored_in_system is not looked at.
ExtractSystemWithoutParent(file) ==
    IF file.system = None THEN None
    ELSE LET system == Unwrap(file.system)
         IN  IF system.id = None /\ system.name = None THEN None
             ELSE Some([id |-> Unwrap(OptionOr(system.id, system.name)),
                        name |-> Unwrap(OptionOr(system.name, system.id)),
                        parent_system |-> None])

\* SubsystemFileSource::extract_system
ExtractSystem(file) ==
    IF file.system = None THEN None
    ELSE LET system == Unwrap(file.system)
         IN  IF system.id = None /\ system.name = None THEN None
             ELSE Some([id |-> Unwrap(OptionOr(system.id, system.name)),
                        name |-> Unwrap(OptionOr(system.name, system.id)),
                        parent_system |->
                            IF IsSome(file.stored_in_system)
                            THEN Some(ReferenceByIndexNew(
                                        Unwrap(file.stored_in_system)))
                            ELSE None])

\* Faulty variant of lines 159-169: the loop over the dependencies is left
\* at the first one without id.
DependenciesUntilMalformed(subsystem) ==
    LET all == iterate_over_option_vecs(subsystem.dependencies,
                                        subsystem.dependency)
        bad == {i \in 1..Len(all) : all[i].id = None}
        kept == IF bad = {} THEN all
                ELSE SubSeq(all, 1, (CHOOSE i \in bad : \A j \in bad : i <= j) - 1)
    IN  [i \in 1..Len(kept) |->
            [subsystem |-> ReferenceByIndexNew(Unwrap(kept[i].id))]]

\* extract_subsystems lines 159-169: the dependencies that have an id
Dependencies(subsystem) ==
    LET kept == SelectSeq(
                    iterate_over_option_vecs(subsystem.dependencies,
                                             subsystem.dependency),
                    LAMBDA d : IsSome(d.id))
    IN  [i \in 1..Len(kept) |->
            [subsystem |-> ReferenceByIndexNew(Unwrap(kept[i].id))]]

\* SubsystemFileSource::extract_subsystems
ExtractSubsystems(file, parent_system) ==
    LET valid == SelectSeq(
                    iterate_over_option_vecs(file.subsystems, file.subsystem),
                    LAMBDA d : ~(d.id = None /\ d.name = None))
    IN  [i \in 1..Len(valid) |->
            [id |-> Unwrap(OptionOr(valid[i].id, valid[i].name)),
             name |-> Unwrap(OptionOr(valid[i].name, valid[i].id)),
             parent_system |->
                 IF IsSome(parent_system)
                 THEN Some(ReferenceByIndexNew(Unwrap(parent_system)))
                 ELSE None,
             dependencies |-> Dependencies(valid[i])]]

\* Faulty variant: stored_in_system comes before the file's own system.
SubsystemParentStoredFirst(file) ==
    LET system == ExtractSystem(file)
    IN  OptionOr(file.stored_in_system,
                 IF IsSome(system) THEN Some(Unwrap(system).id) ELSE None)

\* merge_all_files lines 452-459: the local parent of the subsystems
SubsystemParent(file) ==
    LET system == ExtractSystem(file)
        system_id == IF IsSome(system) THEN Some(Unwrap(system).id) ELSE None
    IN  OptionOr(system_id, file.stored_in_system)

\* Faulty variant of Vec::append: the new elements come first.
VecAppendFront(vec, other) == other \o vec

\* Vec::append
VecAppend(vec, other) == vec \o other

\* Faulty variant of HashMap::insert: the first value of a key is kept.
HashMapInsertIfAbsent(m, k, v) ==
    [x \in DOMAIN m \cup {k} |-> IF x \in DOMAIN m THEN m[x] ELSE v]

\* HashMap::insert
HashMapInsert(m, k, v) ==
    [x \in DOMAIN m \cup {k} |-> IF x = k THEN v ELSE m[x]]

\* reconstruct_links lines 484-489: id -> index, over entities i..
RECURSIVE Indexes(_, _, _)
Indexes(entities, i, m) ==
    IF i > Len(entities) THEN m
    ELSE Indexes(entities, i + 1, HashMapInsert(m, entities[i].id, i - 1))

EmptyHashMap == [x \in {} |-> 0]

\* Faulty variant of find_index_in: a missing id gets the first index.
FindIndexInOrFirst(ref, indexes) ==
    [ref EXCEPT !.index = IF ref.id \in DOMAIN indexes
                          THEN Some(indexes[ref.id]) ELSE Some(0)]

\* ReferenceByIndex::find_index_in
FindIndexIn(ref, indexes) ==
    [ref EXCEPT !.index = IF ref.id \in DOMAIN indexes
                          THEN Some(indexes[ref.id]) ELSE None]

\* reconstruct_links lines 493-502, for one entity
LinkParent(entity, sysIndexes) ==
    [entity EXCEPT !.parent_system =
        IF IsSome(@) THEN Some(FindIndexIn(Unwrap(@), sysIndexes)) ELSE None]

\* reconstruct_links lines 505-510, for one subsystem
LinkDependencies(s, subIndexes) ==
    [s EXCEPT !.dependencies =
        [i \in 1..Len(@) |->
            [subsystem |-> FindIndexIn(@[i].subsystem, subIndexes)]]]

\* Graph::output_subsystems_dependencies: the edges, from subsystem a on
RECURSIVE OutputSubsystemsDependencies(_, _)
OutputSubsystemsDependencies(subs, a) ==
    IF a > Len(subs) THEN <<>>
    ELSE LET found == SelectSeq(subs[a].dependencies,
                                LAMBDA d : IsSome(d.subsystem.index))
         IN  [i \in 1..Len(found) |->
                 <<subs[a].id,
                   subs[Unwrap(found[i].subsystem.index) + 1].id>>]
             \o OutputSubsystemsDependencies(subs, a + 1)

\* DotBuilder: what new, begin_cluster, end_cluster, add_node, add_edge and
\* close hand to their templates.  An indent is its number of "  ".
BeginGraph == <<"begin_graph">>
BeginCluster(indent, id, name) == <<"begin_cluster", indent, id, name>>
EndCluster(indent) == <<"end_cluster", indent>>
AddNode(indent, id, name) == <<"add_node", indent, id, name>>
AddEdge(indent, id_a, id_b) == <<"add_edge", indent, id_a, id_b>>
EndGraph == <<"end_graph">>

\* system.parent_system.as_ref().and_then(|p| p.index())
ParentSystemIndex(entity) ==
    IF IsSome(entity.parent_system)
    THEN Unwrap(entity.parent_system).index ELSE None

\* Graph::output_system: OutputSystemClusters is its first loop from the
\* system of index i - 1 on, OutputSystemNodes its second loop
RECURSIVE OutputSystem(_, _, _, _)
RECURSIVE OutputSystemClusters(_, _, _, _, _)
OutputSystemClusters(sys, subs, current_parent_index, indent, i) ==
    IF i > Len(sys) THEN <<>>
    ELSE (IF ParentSystemIndex(sys[i]) = current_parent_index
          THEN <<BeginCluster(indent, sys[i].id, sys[i].name)>>
                 \o OutputSystem(sys, subs, Some(i - 1), indent + 1)
                 \o <<EndCluster(indent)>>
          ELSE <<>>)
            \o OutputSystemClusters(sys, subs, current_parent_index, indent,
                                    i + 1)

\* Faulty variant of the second loop of output_system: the Subsystems
\* without parent index are printed in every cluster as well.
OutputSystemNodesWithRoot(subs, current_parent_index, indent) ==
    LET targeted == SelectSeq(subs,
            LAMBDA s : ParentSystemIndex(s) \in {current_parent_index, None})
    IN  [i \in 1..Len(targeted) |->
            AddNode(indent, targeted[i].id, targeted[i].name)]

OutputSystemNodes(subs, current_parent_index, indent) ==
    LET targeted == SelectSeq(subs,
            LAMBDA s : ParentSystemIndex(s) = current_parent_index)
    IN  [i \in 1..Len(targeted) |->
            AddNode(indent, targeted[i].id, targeted[i].name)]

OutputSystem(sys, subs, current_parent_index, indent) ==
    OutputSystemClusters(sys, subs, current_parent_index, indent, 1)
        \o OutputSystemNodes(subs, current_parent_index, indent)

\* the add_edge calls of output_subsystems_dependencies
OutputEdges(subs, indent) ==
    LET edges == OutputSubsystemsDependencies(subs, 1)
    IN  [e \in 1..Len(edges) |-> AddEdge(indent, edges[e][1], edges[e][2])]

\* Faulty variant of output_to_dot: the edges are printed first.
GraphOutputToDotEdgesFirst(sys, subs) ==
    <<BeginGraph>> \o OutputEdges(subs, 1) \o OutputSystem(sys, subs, None, 1)
        \o <<EndGraph>>

\* Graph::output_to_dot
GraphOutputToDot(sys, subs) ==
    <<BeginGraph>> \o OutputSystem(sys, subs, None, 1) \o OutputEdges(subs, 1)
        \o <<EndGraph>>

\* The repositories are empty and source_to_graph is not yet called.
InitBuild ==
    /\ src = "A"
    /\ config = UpdatableFrom("K1", NoInstant)
    /\ graph = UpdatableFrom(GraphRepresentationFrom("A"), InstantNow)
    /\ mutexHolder = NoThread
    /\ mutexPoisoned = FALSE
    /\ cfgWriter = NoThread
    /\ cfgReaders = {}
    /\ cfgPoisoned = FALSE
    /\ graphWriter = NoThread
    /\ graphReaders = {}
    /\ rb = [t \in Threads |-> "exited"]
    /\ everSpawned = (graph.version > 0)
    /\ rbRep = [t \in Threads |-> NoRep]
    /\ rbCfg = [t \in Threads |-> NoConfig]
    /\ tickPc = [a \in Actors |-> "idle"]
    /\ last_version = [a \in Actors |-> 0]
    /\ subscribers = [a \in Actors |-> <<>>]
    /\ subInfo = [a \in Actors |-> <<>>]
    /\ readPc = "idle"
    /\ closed = {}
    /\ mailbox = [h \in {} |-> 0]
    /\ unsubscribed = {}
    /\ files = <<>>
    /\ buildPc = "input"
    /\ merged = 0
    /\ systems = <<>>
    /\ subsystems = <<>>
    /\ dot = <<>>
    /\ url = <<>>
    /\ urlPc = "idle"
    /\ repo_name = <<>>
    /\ watchPc = "waiting"
    /\ watchCfg = NoConfig
    /\ inbox = [a \in Actors |-> <<>>]
    /\ update_master = [h \in Sessions |-> NoActor]

serverVars == <<src, coreVars, lockVars, rbVars, actorVars, readPc,
                sessionVars, watchVars, wsVars>>

\* The repositories get their content, outside the program, before
\* source_to_graph is called: one more file, or one more line or table in
\* the last file.
FoundFile(f) ==
    /\ buildPc = "input"
    /\ Items(files, 1) < MaxItems
    /\ files' = Append(files, f)
    /\ UNCHANGED <<serverVars, urlVars, buildPc, merged, systems, subsystems, dot>>

WriteStoredInSystem(s) ==
    /\ buildPc = "input"
    /\ Items(files, 1) < MaxItems
    /\ files # <<>>
    /\ files[Len(files)].kind = "toml"
    /\ files[Len(files)].stored_in_system = None
    /\ files' = [files EXCEPT ![Len(files)].stored_in_system = Some(s)]
    /\ UNCHANGED <<serverVars, urlVars, buildPc, merged, systems, subsystems, dot>>

WriteSystem(x) ==
    /\ buildPc = "input"
    /\ Items(files, 1) < MaxItems
    /\ files # <<>>
    /\ files[Len(files)].kind = "toml"
    /\ files[Len(files)].system = None
    /\ files' = [files EXCEPT ![Len(files)].system = Some(x)]
    /\ UNCHANGED <<serverVars, urlVars, buildPc, merged, systems, subsystems, dot>>

WriteSubsystem(t) ==
    /\ buildPc = "input"
    /\ Items(files, 1) < MaxItems
    /\ files # <<>>
    /\ files[Len(files)].kind = "toml"
    /\ files' = [files EXCEPT ![Len(files)].tables = Append(@, t)]
    /\ UNCHANGED <<serverVars, urlVars, buildPc, merged, systems, subsystems, dot>>

WriteDependency(d) ==
    /\ buildPc = "input"
    /\ Items(files, 1) < MaxItems
    /\ files # <<>>
    /\ files[Len(files)].tables # <<>>
    /\ files' = [files EXCEPT ![Len(files)].tables =
                    [@ EXCEPT ![Len(@)].dependencies = Append(@, d)]]
    /\ UNCHANGED <<serverVars, urlVars, buildPc, merged, systems, subsystems, dot>>

\* Faulty variant of reconstruct_links: of the indices of the entities that
\* share an id, any one is kept.
IndexChoices(entities) ==
    {m \in [{entities[i].id : i \in 1..Len(entities)} -> 0..(Len(entities) - 1)] :
        \A id \in DOMAIN m : entities[m[id] + 1].id = id}

SourceToGraphLinkAnyIndex ==
    /\ buildPc = "merge"
    /\ merged = Len(ReadFiles(files).value)
    /\ \E sysIndexes \in IndexChoices(systems),
          subIndexes \in IndexChoices(subsystems) :
           /\ systems' = [i \in 1..Len(systems) |->
                              LinkParent(systems[i], sysIndexes)]
           /\ subsystems' = [i \in 1..Len(subsystems) |->
                              LinkDependencies(
                                  LinkParent(subsystems[i], sysIndexes),
                                  subIndexes)]
    /\ buildPc' = "Ok"
    /\ UNCHANGED <<serverVars, urlVars, files, merged, dot>>

\* Faulty variant: a dependency is resolved against the subsystems up to
\* its own, as if it were linked while the files are merged.
SourceToGraphLinkWhileMerging ==
    /\ buildPc = "merge"
    /\ merged = Len(ReadFiles(files).value)
    /\ LET sysIndexes == Indexes(systems, 1, EmptyHashMap)
       IN  /\ systems' = [i \in 1..Len(systems) |->
                              LinkParent(systems[i], sysIndexes)]
           /\ subsystems' = [i \in 1..Len(subsystems) |->
                              LinkDependencies(
                                  LinkParent(subsystems[i], sysIndexes),
                                  Indexes(SubSeq(subsystems, 1, i), 1,
                                          EmptyHashMap))]
    /\ buildPc' = "Ok"
    /\ UNCHANGED <<serverVars, urlVars, files, merged, dot>>

\* Faulty variant: one mapping from identifier to index for both
\* collections, the Subsystems inserted after the Systems.
SourceToGraphLinkOneNamespace ==
    /\ buildPc = "merge"
    /\ merged = Len(ReadFiles(files).value)
    /\ LET indexes == Indexes(subsystems, 1,
                              Indexes(systems, 1, EmptyHashMap))
       IN  /\ systems' = [i \in 1..Len(systems) |->
                              LinkParent(systems[i], indexes)]
           /\ subsystems' = [i \in 1..Len(subsystems) |->
                              LinkDependencies(
                                  LinkParent(subsystems[i], indexes),
                                  indexes)]
    /\ buildPc' = "Ok"
    /\ UNCHANGED <<serverVars, urlVars, files, merged, dot>>

\* source_to_graph is called with the files found in the repositories;
\* merge_all_files lines 441-446: an Err of read_file is returned at once
MergeAllFilesRead ==
    /\ buildPc = "input"
    /\ buildPc' = IF ReadFiles(files).ok THEN "merge" ELSE "Err"
    /\ UNCHANGED <<serverVars, urlVars, files, merged, systems, subsystems, dot>>

\* merge_all_files lines 449-469: one turn of the loop over the files
MergeAllFilesFile ==
    /\ buildPc = "merge"
    /\ merged < Len(ReadFiles(files).value)
    /\ LET file == ReadFiles(files).value[merged + 1]
           system == ExtractSystem(file)
           local_subsystems == ExtractSubsystems(file, SubsystemParent(file))
       IN  /\ systems' = IF IsSome(system)
                         THEN Append(systems, Unwrap(system)) ELSE systems
           /\ subsystems' = VecAppend(subsystems, local_subsystems)
    /\ merged' = merged + 1
    /\ UNCHANGED <<serverVars, urlVars, files, buildPc, dot>>

\* merge_all_files returns Ok(Graph) after the last file; source_to_graph
\* then calls reconstruct_links and returns Ok(graph)
SourceToGraphLink ==
    /\ buildPc = "merge"
    /\ merged = Len(ReadFiles(files).value)
    /\ LET sysIndexes == Indexes(systems, 1, EmptyHashMap)
           subIndexes == Indexes(subsystems, 1, EmptyHashMap)
       IN  /\ systems' = [i \in 1..Len(systems) |->
                              LinkParent(systems[i], sysIndexes)]
           /\ subsystems' = [i \in 1..Len(subsystems) |->
                              LinkDependencies(
                                  LinkParent(subsystems[i], sysIndexes),
                                  subIndexes)]
    /\ buildPc' = "Ok"
    /\ UNCHANGED <<serverVars, urlVars, files, merged, dot>>

\* GraphRepresentation::from lines 525-532: the graph that
\* construct_from_config returned is written as DOT
GraphRepresentationFromDot ==
    /\ buildPc = "Ok"
    /\ dot' = GraphOutputToDot(systems, subsystems)
    /\ buildPc' = "dot"
    /\ UNCHANGED <<serverVars, urlVars, files, merged, systems, subsystems>>

NextBuild ==
    \/ \E f \in FoundFiles : FoundFile(f)
    \/ \E s \in {"a"} : WriteStoredInSystem(s)
    \/ \E x \in SystemSources : WriteSystem(x)
    \/ \E t \in SubsystemTables : WriteSubsystem(t)
    \/ \E d \in DependencySources : WriteDependency(d)
    \/ MergeAllFilesRead
    \/ MergeAllFilesFile
    \/ SourceToGraphLink
    \/ GraphRepresentationFromDot

SpecBuild == InitBuild /\ [][NextBuild]_vars

\* ------------------------------------- extract_subsystems on one file
\* One TOML file, whose tables are written under both keys and whose
\* dependencies are written under both keys and name two subsystems, is
\* given to source_to_graph.
DependencySourcesByKey ==
    [key : {"dependency", "dependencies"}, id : {None, Some("a"), Some("b")}]

NextExtract ==
    \/ \E f \in FoundFiles : files = <<>> /\ f.kind = "toml" /\ FoundFile(f)
    \/ \E t \in SubsystemTables : WriteSubsystem(t)
    \/ \E d \in DependencySourcesByKey : WriteDependency(d)
    \/ MergeAllFilesRead
    \/ MergeAllFilesFile
    \/ SourceToGraphLink

SpecExtract == InitBuild /\ [][NextExtract]_vars

\* ------------------------------------------------ the graph rebuilt
\* upgrade_graph of src/src/core.rs with the build spelled out: the rebuild
\* thread t has the Graph of source_to_graph and its DOT; it makes the
\* representation (to_json of the Graph, and the image the renderer draws
\* of the DOT), stores it with update (line 182) and ends.  The next
\* rebuild thread is given the same files.  One thread runs at a time
\* (is_graph_updating), so the locks are left out here.
GraphRepresentationBuilt ==
    [json |-> <<"json", systems, subsystems>>, svg |-> <<"svg", dot>>]

\* upgrade_graph lines 172-182
UpgradeGraphStore(t) ==
    /\ buildPc = "dot"
    /\ rbRep[t] = NoRep
    /\ \A u \in Threads : u < t => rbRep[u] # NoRep
    /\ rbRep' = [rbRep EXCEPT ![t] = GraphRepresentationBuilt]
    /\ everSpawned' = TRUE
    /\ config' = UpdatableAcknowledge(config)
    /\ graph' = UpdatableUpdate(graph, GraphRepresentationBuilt, InstantNow)
    /\ buildPc' = "stored"
    /\ UNCHANGED <<src, lockVars, rb, rbCfg, actorVars, readPc, sessionVars,
                   watchVars, wsVars, urlVars, files, merged, systems,
                   subsystems, dot>>

\* check_for_graph_update spawns the next rebuild thread, which calls
\* source_to_graph with the files as they still are
UpgradeGraphAgain ==
    /\ buildPc = "stored"
    /\ \E t \in Threads : rbRep[t] = NoRep
    /\ buildPc' = "merge"
    /\ merged' = 0
    /\ systems' = <<>>
    /\ subsystems' = <<>>
    /\ dot' = <<>>
    /\ UNCHANGED <<serverVars, urlVars, files>>

NextRebuild ==
    \/ \E f \in FoundFiles : FoundFile(f)
    \/ \E s \in {"a"} : WriteStoredInSystem(s)
    \/ \E x \in SystemSources : WriteSystem(x)
    \/ \E t \in SubsystemTables : WriteSubsystem(t)
    \/ \E d \in DependencySources : WriteDependency(d)
    \/ MergeAllFilesRead
    \/ MergeAllFilesFile
    \/ SourceToGraphLink
    \/ GraphRepresentationFromDot
    \/ \E t \in Threads : UpgradeGraphStore(t)
    \/ UpgradeGraphAgain

SpecRebuild == InitBuild /\ [][NextRebuild]_vars

\* ------------------------------------------------ Graph::output_to_dot
\* The export taken by itself, over the Graphs that source_to_graph
\* returns: up to MaxSystems Systems and MaxSubsystems Subsystems with ids
\* among "a" and "b", each without parent or with a parent reference to one
\* of these ids, a Subsystem with at most one dependency; the references
\* are those that reconstruct_links leaves.
MaxSystems == 2
MaxSubsystems == 2
GraphIds == {"a", "b"}

SeqsUpTo(S, n) == UNION {[1..k -> S] : k \in 0..n}

UnlinkedParents ==
    {None} \cup {Some(ReferenceByIndexNew(id)) : id \in GraphIds}

UnlinkedSystems ==
    {[id |-> id, name |-> id, parent_system |-> p] :
        id \in GraphIds, p \in UnlinkedParents}

UnlinkedSubsystems ==
    {[id |-> id, name |-> id, parent_system |-> p, dependencies |-> d] :
        id \in GraphIds, p \in UnlinkedParents,
        d \in {<<>>, <<[subsystem |-> ReferenceByIndexNew("a")]>>}}

\* reconstruct_links, on the two vectors
LinkedSystems(sys) ==
    [i \in 1..Len(sys) |->
        LinkParent(sys[i], Indexes(sys, 1, EmptyHashMap))]

LinkedSubsystems(sys, subs) ==
    [i \in 1..Len(subs) |->
        LinkDependencies(
            LinkParent(subs[i], Indexes(sys, 1, EmptyHashMap)),
            Indexes(subs, 1, EmptyHashMap))]

InitDot ==
    /\ src = "A"
    /\ config = UpdatableFrom("K1", NoInstant)
    /\ graph = UpdatableFrom(GraphRepresentationFrom("A"), InstantNow)
    /\ mutexHolder = NoThread
    /\ mutexPoisoned = FALSE
    /\ cfgWriter = NoThread
    /\ cfgReaders = {}
    /\ cfgPoisoned = FALSE
    /\ graphWriter = NoThread
    /\ graphReaders = {}
    /\ rb = [t \in Threads |-> "exited"]
    /\ everSpawned = (graph.version > 0)
    /\ rbRep = [t \in Threads |-> NoRep]
    /\ rbCfg = [t \in Threads |-> NoConfig]
    /\ tickPc = [a \in Actors |-> "idle"]
    /\ last_version = [a \in Actors |-> 0]
    /\ subscribers = [a \in Actors |-> <<>>]
    /\ subInfo = [a \in Actors |-> <<>>]
    /\ readPc = "idle"
    /\ closed = {}
    /\ mailbox = [h \in {} |-> 0]
    /\ unsubscribed = {}
    /\ files = <<>>
    /\ buildPc = "Ok"
    /\ merged = 0
    /\ \E sys \in SeqsUpTo(UnlinkedSystems, MaxSystems) :
       \E subs \in SeqsUpTo(UnlinkedSubsystems, MaxSubsystems) :
          /\ systems = LinkedSystems(sys)
          /\ subsystems = LinkedSubsystems(sys, subs)
    /\ dot = <<>>
    /\ url = <<>>
    /\ urlPc = "idle"
    /\ repo_name = <<>>
    /\ watchPc = "waiting"
    /\ watchCfg = NoConfig
    /\ inbox = [a \in Actors |-> <<>>]
    /\ update_master = [h \in Sessions |-> NoActor]

NextDot == GraphRepresentationFromDot

SpecDot == InitDot /\ [][NextDot]_vars

\* ------------------------------------------------ get_name_from_url
\* src/src/git_extraction/mod.rs.  A url is a sequence of characters, all of
\* one byte; positions are those of the program, counted from 0.
MaxUrl == 6
Chars == {"/", "\\", ".", "g", "i", "t"}

\* str::rfind(char)
RFind(s, c) ==
    LET found == {i \in 1..Len(s) : s[i] = c}
    IN  IF found = {} THEN None
        ELSE Some((CHOOSE i \in found : \A j \in found : j <= i) - 1)

\* Faulty variant of max: the first argument if it is Some.
OrOption(a, b) == IF IsSome(a) THEN a ELSE b

\* std::cmp::max on Option<usize>: None is below every Some
MaxOption(a, b) ==
    IF a = None THEN b
    ELSE IF b = None THEN a
    ELSE IF Unwrap(b) >= Unwrap(a) THEN b ELSE a

\* str::ends_with(&str)
EndsWith(s, suffix) ==
    /\ Len(s) >= Len(suffix)
    /\ SubSeq(s, Len(s) - Len(suffix) + 1, Len(s)) = suffix

DotGit == <<".", "g", "i", "t">>

\* &url[start..end]: it panics when start > end or end > len
Slice(s, start, end) ==
    IF start > end \/ end > Len(s) THEN [panic |-> TRUE, value |-> <<>>]
    ELSE [panic |-> FALSE, value |-> SubSeq(s, start + 1, end)]

get_name_from_url(u) ==
    LET m == MaxOption(RFind(u, "\\"), RFind(u, "/"))
        last_slash == IF IsSome(m) THEN Unwrap(m) + 1 ELSE 0
        length_without_prefix ==
            Len(u) - (IF EndsWith(u, DotGit) THEN 4 ELSE 0)
    IN  Slice(u, last_slash, length_without_prefix)

\* construct_from_config is at a target that has a url and a branch.
InitUrl ==
    /\ src = "A"
    /\ config = UpdatableFrom("K1", NoInstant)
    /\ graph = UpdatableFrom(GraphRepresentationFrom("A"), InstantNow)
    /\ mutexHolder = NoThread
    /\ mutexPoisoned = FALSE
    /\ cfgWriter = NoThread
    /\ cfgReaders = {}
    /\ cfgPoisoned = FALSE
    /\ graphWriter = NoThread
    /\ graphReaders = {}
    /\ rb = [t \in Threads |-> "exited"]
    /\ everSpawned = (graph.version > 0)
    /\ rbRep = [t \in Threads |-> NoRep]
    /\ rbCfg = [t \in Threads |-> NoConfig]
    /\ tickPc = [a \in Actors |-> "idle"]
    /\ last_version = [a \in Actors |-> 0]
    /\ subscribers = [a \in Actors |-> <<>>]
    /\ subInfo = [a \in Actors |-> <<>>]
    /\ readPc = "idle"
    /\ closed = {}
    /\ mailbox = [h \in {} |-> 0]
    /\ unsubscribed = {}
    /\ files = <<>>
    /\ buildPc = "idle"
    /\ merged = 0
    /\ systems = <<>>
    /\ subsystems = <<>>
    /\ dot = <<>>
    /\ url = <<>>
    /\ urlPc = "target"
    /\ repo_name = <<>>
    /\ watchPc = "waiting"
    /\ watchCfg = NoConfig
    /\ inbox = [a \in Actors |-> <<>>]
    /\ update_master = [h \in Sessions |-> NoActor]

\* The url of the target, as the configuration file gives it: one more
\* character
WriteUrl(c) ==
    /\ urlPc = "target"
    /\ Len(url) < MaxUrl
    /\ url' = Append(url, c)
    /\ UNCHANGED <<serverVars, buildVars, urlPc, repo_name>>

\* construct_from_config lines 298-302:
\* repo_name = get_name_from_url(url.as_str()).to_owned()
ConstructFromConfigRepoName ==
    /\ urlPc = "target"
    /\ LET name == get_name_from_url(url)
       IN  IF name.panic
           THEN urlPc' = "panic" /\ UNCHANGED repo_name
           ELSE urlPc' = "named" /\ repo_name' = name.value
    /\ UNCHANGED <<serverVars, buildVars, url>>

NextUrl ==
    \/ \E c \in Chars : WriteUrl(c)
    \/ ConstructFromConfigRepoName

SpecUrl == InitUrl /\ [][NextUrl]_vars

\* ================================================================ claims
\* The rebuild threads that are inside the body of Core::upgrade_graph
Rebuilding == {t \in Threads : rb[t] \in InBody}
\* The rebuild threads that exist: started by thread::spawn, not yet returned
Alive == {t \in Threads : rb[t] \notin {"exited"} \cup Returned}
\* thread t returns from upgrade_graph with an Err, or dies, in this step
\* without having published
Fails(t) ==
    rb[t] \in {"locked", "building", "built"} /\ rb'[t] \in {"Err", "exited"}
\* thread t runs line 181, line 182, one of the two in this step
Acknowledges(t) == rb[t] = "publishing" /\ rb'[t] = "acknowledged"
Updates(t) == rb[t] = "acknowledged" /\ rb'[t] = "Ok"
Publishes(t) == Acknowledges(t) \/ Updates(t)

\* C1: in every reachable state at most one thread is executing the body
\* of Core::upgrade_graph, whatever the interleaving of the ticks of
\* several actors and of the config reloads.
AtMostOneRebuild == Cardinality(Rebuilding) <= 1

\* C1, the case: a thread is inside the body while another one, spawned by
\* a tick, is waiting at lock().
RebuildContended ==
    \E t, u \in Threads : rb[t] = "building" /\ rb[u] = "spawned"

\* C2: single-flight is skip, not queue: of the calls that find a rebuild
\* due at the same time one spawns a rebuild thread, the others return
\* without spawning, so that no rebuild thread exists besides the one in
\* flight, waiting to run after it.
SkipNotQueue == Cardinality(Alive) <= 1

\* C3: a rebuild that fails leaves config and graph (json, svg, version,
\* last_check, acknowledged flag) exactly as they were; only the publishing
\* step of a rebuild changes the stored representation, the version or
\* acknowledges the configuration; and what a reader finds in storage is at
\* any time the json and the svg of one and the same graph.
SnapshotComplete ==
    \E c \in Contents : CoreJson = <<"json", c>> /\ CoreSvg = <<"svg", c>>

FailureKeepsSnapshot ==
    \A t \in Threads : Fails(t) => graph' = graph /\ config' = config

OnlyPublishChangesSnapshot ==
    /\ (graph'.storage # graph.storage \/ graph'.version # graph.version)
            => \E t \in Threads : Updates(t)
    /\ (config'.has_been_acknowledged /\ ~config.has_been_acknowledged)
            => \E t \in Threads : Acknowledges(t)

VersionStep(u, v) ==
    /\ v.version >= u.version
    /\ (v.storage # u.storage) <=> (v.version = u.version + 1)
    /\ (v.storage = u.storage) <=> (v.version = u.version)

VersionsMonotonic ==
    [][VersionStep(graph, graph') /\ VersionStep(config, config')]_vars

\* C4, the case: contents A, B, A have been published as versions 0, 1, 2.
BackToFirstContent ==
    /\ graph.version = 2
    /\ graph.storage = GraphRepresentationFrom("A")

\* C5: when a successful rebuild publishes a representation equal to the
\* stored one, version and storage stay as they are and last_check is set
\* to the current time; when it differs, the version advances by one, the
\* new representation is stored and last_check is set as well.
PublishStep(t) ==
    /\ graph'.last_check = InstantNow.last_check
    /\ IF rbRep[t] = graph.storage
       THEN /\ graph'.version = graph.version
            /\ graph'.storage = graph.storage
            /\ graph'.has_been_acknowledged = graph.has_been_acknowledged
       ELSE /\ graph'.version = graph.version + 1
            /\ graph'.storage = rbRep[t]

NoOpRebuildIdempotent ==
    [][\A t \in Threads : Updates(t) => PublishStep(t)]_vars

\* C5, the case: a no-op rebuild has published.  The configuration never
\* changed (its version is 0), so the tick now at try_lock found the
\* interval elapsed; last_check is the current time again, so a rebuild has
\* published since, and it left the version at 0.
NoOpRebuildDone ==
    /\ config.version = 0
    /\ graph.version = 0
    /\ graph.last_check = 0
    /\ \E a \in Actors : tickPc[a] = "try"

\* C6: a rebuild is started only when one is due: a tick spawns a rebuild
\* thread, and a rebuild thread enters the body of upgrade_graph, only
\* while the configuration is unacknowledged or more than
\* interval_between_updates has passed since last_check; so after a
\* successful rebuild, with no config change, none starts until the
\* interval has elapsed again.
Spawns(t) == rb[t] = "exited" /\ rb'[t] = "spawned"
Begins(t) == rb[t] = "spawned" /\ rb'[t] = "locked"

RebuildOnlyWhenDue ==
    [][\A t \in Threads : Spawns(t) \/ Begins(t) => IsGraphUpdateRequired]_vars

\* C7: after any failed rebuild the single-flight lock is released and the
\* next tick is able to start a new rebuild: once no rebuild thread is
\* left, a tick gets through self.config.read() and through try_lock().
RetryAfterFailure ==
    Alive = {} => ~cfgPoisoned /\ ~TryLockIsErr

\* C8: the step of a tick that compares the versions sends one PleaseUpdate
\* to every entry of the subscriber list and records the version if the
\* core's version differs from last_version; it sends nothing and leaves
\* last_version if they are equal.  No message is sent before the first
\* version change.
Got(a) == [i \in 1..Len(subInfo[a]) |-> subInfo[a][i].got]

NotifyStep(a) ==
    IF graph.version # last_version[a]
    THEN /\ last_version'[a] = graph.version
         /\ subscribers'[a] = subscribers[a]
         /\ Got(a)' = [i \in 1..Len(subscribers[a]) |-> Got(a)[i] + 1]
    ELSE /\ last_version'[a] = last_version[a]
         /\ subscribers'[a] = subscribers[a]
         /\ Got(a)' = Got(a)

NothingSentAtVersion0 ==
    graph.version = 0 =>
        \A a \in Actors : \A i \in 1..Len(subInfo[a]) : Got(a)[i] = 0

TickNotifiesOnChange ==
    /\ []NothingSentAtVersion0
    /\ [][\A a \in Actors :
            tickPc[a] = "version" /\ tickPc'[a] = "idle" => NotifyStep(a)]_vars

\* C8, the case: a tick has found version 1, with two entries in the list,
\* and each has been sent its message.
BothNotified ==
    /\ tickPc["w1"] = "idle"
    /\ Len(subscribers["w1"]) = 2
    /\ last_version["w1"] = 1
    /\ Got("w1") = <<1, 1>>

\* C9, as stated: the number of messages sent to a subscriber equals the
\* number of times the version advanced while it was subscribed.  Checked
\* at the moments this can be expected: the actor is between two ticks and
\* has seen the current version, and it had seen the version of the moment
\* when the subscriber arrived.
OneEventPerVersionChange ==
    \A a \in Actors : \A i \in 1..Len(subInfo[a]) :
        (/\ tickPc[a] = "idle"
         /\ last_version[a] = graph.version
         /\ subInfo[a][i].lv0 = subInfo[a][i].ver0)
            => subInfo[a][i].got = graph.version - subInfo[a][i].ver0

\* C9, amended: a subscriber is sent one message per tick of its actor
\* that finds a version other than the one the actor saw last: at least
\* one once the actor has seen a newer version than at the subscription,
\* and at most as many as the actor's last_version has advanced since.
OneEventPerObservedChange ==
    \A a \in Actors : \A i \in 1..Len(subInfo[a]) :
        /\ subInfo[a][i].got <= last_version[a] - subInfo[a][i].lv0
        /\ last_version[a] > subInfo[a][i].lv0 => subInfo[a][i].got >= 1

\* C9, the case: the version advanced twice between two ticks and the
\* subscriber, present all along, has been sent one message.
Coalesced ==
    \E i \in 1..Len(subInfo["w1"]) :
        /\ tickPc["w1"] = "idle"
        /\ subInfo["w1"][i].lv0 = subInfo["w1"][i].ver0
        /\ last_version["w1"] = graph.version
        /\ graph.version = subInfo["w1"][i].ver0 + 2
        /\ subInfo["w1"][i].got = 1

\* C10: the graph write lock is held only by a rebuild in its publishing
\* step, never while a rebuild takes its locks, builds or has just built:
\* Core::json and Core::svg, called then, are granted the read lock at once.
ReadersNotBlocked ==
    /\ \A t \in Threads :
          graphWriter = t => rb[t] \in {"publishing", "acknowledged"}
    /\ \A t \in Threads :
        rb[t] \in {"locked", "building", "built"} =>
            /\ graphWriter = NoThread
            /\ readPc = "idle" => ENABLED CoreReadBegin

\* C10, the case: a request handler reads the snapshot while a rebuild is
\* building.
ReadDuringBuild ==
    /\ readPc = "reading"
    /\ \E t \in Threads : rb[t] = "building"

\* C11: the timer path never blocks on a rebuild: while a rebuild is
\* building, a tick that arrives gets through the first lock it takes,
\* self.config.read() of is_graph_update_required, without waiting for the
\* build to finish.
TickNeverWaitsForBuild ==
    \A a \in Actors :
        (tickPc[a] = "idle" /\ \E t \in Threads : rb[t] = "building")
            => ENABLED TickConfigRead(a)

\* C12: delivery is best-effort.  In the step of a tick that finds a new
\* version, every session whose mailbox is open is sent one PleaseUpdate
\* per entry it has in the subscriber list, wherever the entries of
\* sessions whose do_send fails stand in the list; a session whose do_send
\* fails gets nothing and stays in the list, which is left as it was; and
\* last_version is recorded.
Occurrences(subs, h) == Cardinality({i \in 1..Len(subs) : subs[i] = h})

BestEffortStep(a) ==
    graph.version # last_version[a] =>
        /\ \A h \in Sessions :
              mailbox'[h] = mailbox[h] +
                  (IF h \in closed THEN 0 ELSE Occurrences(subscribers[a], h))
        /\ subscribers'[a] = subscribers[a]
        /\ last_version'[a] = graph.version

BestEffortDelivery ==
    [][\A a \in FanActors :
          tickPc[a] = "version" /\ tickPc'[a] = "idle" => BestEffortStep(a)]_vars

\* C12, the case: a pass has gone over an entry whose do_send failed (it was
\* sent to, its session has nothing in its mailbox) and a later entry of
\* the list has its message.
SentPastFailure ==
    \E i, j \in 1..Len(subscribers["w1"]) :
        /\ i < j
        /\ last_version["w1"] = graph.version
        /\ Got("w1")[i] = 1
        /\ subscribers["w1"][i] \in closed
        /\ mailbox[subscribers["w1"][i]] = 0
        /\ Got("w1")[j] = 1
        /\ subscribers["w1"][j] \notin closed
        /\ mailbox[subscribers["w1"][j]] = 1

\* C13: Subscribe is a plain append.  Handling Subscribe(h) lengthens the
\* list by one entry, h, at the end, the entries before it being those of
\* the old list in their order, whether or not h was in the list already;
\* so a handle subscribed k times has k entries, and the step of a tick
\* that finds a new version puts k PleaseUpdate in its mailbox.
AppendStep(a, h) ==
    LET old == subscribers[a]
        new == subscribers'[a]
    IN  /\ Len(new) = Len(old) + 1
        /\ new[Len(new)] = h
        /\ \A i \in 1..Len(old) : new[i] = old[i]
        /\ Occurrences(new, h) = Occurrences(old, h) + 1

OneMessagePerEntry(a) ==
    graph.version # last_version[a] =>
        \A h \in Sessions \ closed :
            mailbox'[h] - mailbox[h] = Occurrences(subscribers[a], h)

SubscribeIsAppend ==
    [][\A a \in FanActors :
          /\ \A h \in Sessions : Subscribe(a, h) => AppendStep(a, h)
          /\ tickPc[a] = "version" /\ tickPc'[a] = "idle"
                => OneMessagePerEntry(a)]_vars

\* C13, the case: h1 was subscribed twice, around a subscription of h2; the
\* version changed and h1 has two messages, h2 one.
SubscribedTwice ==
    /\ subscribers["w1"] = <<"h1", "h2", "h1">>
    /\ last_version["w1"] = graph.version
    /\ Got("w1") = <<1, 1, 1>>
    /\ mailbox["h1"] = 2
    /\ mailbox["h2"] = 1

\* C14: Unsubscribe removes by identity.  Handling Unsubscribe(h) leaves no
\* entry equal to h, however many there were, and leaves every other entry,
\* in the order they had; and a session without an entry in the list is
\* sent nothing, whatever version change follows, until it subscribes again.
RemoveStep(a, h) ==
    LET old == subscribers[a]
        new == subscribers'[a]
    IN  /\ \A i \in 1..Len(new) : new[i] # h
        /\ Len(new) = Len(old) - Occurrences(old, h)
        /\ \A i \in 1..Len(old) :
              old[i] # h =>
                  new[i - Cardinality({j \in 1..i : old[j] = h})] = old[i]

NothingWithoutEntry(a) ==
    \A h \in Sessions :
        Occurrences(subscribers[a], h) = 0 => mailbox'[h] = mailbox[h]

UnsubscribeRemovesAll ==
    [][\A a \in FanActors :
          /\ \A h \in Sessions : Unsubscribe(a, h) => RemoveStep(a, h)
          /\ NothingWithoutEntry(a)]_vars

\* C14, the case: h2 was unsubscribed and has not subscribed again; h1 and
\* h3 are in the list, in this order; the version changed afterwards (the
\* mailbox of h2 is open and has nothing) and they have their message.
UnsubscribedBeforeChange ==
    /\ "h2" \in unsubscribed
    /\ "h2" \notin closed
    /\ mailbox["h2"] = 0
    /\ subscribers["w1"] = <<"h1", "h3">>
    /\ last_version["w1"] = graph.version
    /\ Got("w1") = <<1, 1>>
    /\ mailbox["h1"] = 1
    /\ mailbox["h3"] = 1

\* ------------------------------------------------ the graph builder
\* The step of merge_all_files for one file and the step of
\* reconstruct_links; the file the former processes, as it was written;
\* the subsystems it appends.
MergeStep == buildPc = "merge" /\ merged' = merged + 1
LinkStep == buildPc = "merge" /\ buildPc' = "Ok"
CurrentFile == files[merged + 1]
NewSubsystems == SubSeq(subsystems', Len(subsystems) + 1, Len(subsystems'))

\* A declaration with an id or a name, and how an entity e resolves it.
Declared(d) == IsSome(d.id) \/ IsSome(d.name)

IdentityOf(d, e) ==
    /\ (~IsSome(d.id) /\ IsSome(d.name)) =>
            e.id = Unwrap(d.name) /\ e.name = Unwrap(d.name)
    /\ (IsSome(d.id) /\ ~IsSome(d.name)) =>
            e.id = Unwrap(d.id) /\ e.name = Unwrap(d.id)
    /\ (IsSome(d.id) /\ IsSome(d.name)) =>
            e.id = Unwrap(d.id) /\ e.name = Unwrap(d.name)

\* C15: identity fallback.  The step that merges a file appends one System
\* for the file's [system] table if the table has an id or a name, and none
\* otherwise; it appends one Subsystem for each of the file's subsystem
\* tables that has an id or a name, and none for the others.  With only a
\* name, id is the name; with only an id, name is the id; with both, both
\* are kept.
SystemFallback ==
    IF IsSome(CurrentFile.system) /\ Declared(Unwrap(CurrentFile.system))
    THEN /\ Len(systems') = Len(systems) + 1
         /\ IdentityOf(Unwrap(CurrentFile.system), systems'[Len(systems')])
    ELSE systems' = systems

SubsystemFallback ==
    LET tables == CurrentFile.tables
        valid == {i \in 1..Len(tables) : Declared(tables[i])}
    IN  /\ Len(NewSubsystems) = Cardinality(valid)
        /\ \E g \in [valid -> 1..Len(NewSubsystems)] :
              /\ \A i, j \in valid : g[i] = g[j] => i = j
              /\ \A i \in valid : IdentityOf(tables[i], NewSubsystems[g[i]])

IdentityFallback ==
    [][MergeStep => SystemFallback /\ SubsystemFallback]_vars

\* C15, the case: the first file has a [system] with a name only, a
\* subsystem table with an id only and one with neither; the graph has the
\* system under the id "b" and one subsystem, named "a".
FallbacksTaken ==
    /\ buildPc = "Ok"
    /\ Len(files) = 1
    /\ files[1].system = Some([id |-> None, name |-> Some("b")])
    /\ Len(files[1].tables) = 2
    /\ files[1].tables[1].id = Some("a") /\ files[1].tables[1].name = None
    /\ ~Declared(files[1].tables[2])
    /\ Len(systems) = 1 /\ systems[1].id = "b" /\ systems[1].name = "b"
    /\ Len(subsystems) = 1
    /\ subsystems[1].id = "a" /\ subsystems[1].name = "a"

\* C16: the subsystems a file contributes have as parent reference the id
\* of the file's own System if its [system] table has an id or a name,
\* otherwise the file's stored_in_system if it has one, otherwise none; the
\* resolution of the links keeps the reference and its id.
ParentOf(f) ==
    IF IsSome(f.system) /\ Declared(Unwrap(f.system))
    THEN LET d == Unwrap(f.system)
         IN  IF IsSome(d.id) THEN d.id ELSE d.name
    ELSE f.stored_in_system

ParentGiven ==
    \A i \in 1..Len(NewSubsystems) :
        NewSubsystems[i].parent_system =
            IF IsSome(ParentOf(CurrentFile))
            THEN Some([id |-> Unwrap(ParentOf(CurrentFile)), index |-> None])
            ELSE None

ParentKept ==
    \A i \in 1..Len(subsystems) :
        IF IsSome(subsystems[i].parent_system)
        THEN /\ IsSome(subsystems'[i].parent_system)
             /\ Unwrap(subsystems'[i].parent_system).id =
                    Unwrap(subsystems[i].parent_system).id
        ELSE subsystems'[i].parent_system = None

SubsystemParentReference ==
    [][(MergeStep => ParentGiven) /\ (LinkStep => ParentKept)]_vars

\* C16, the case: the file has a [system] table with neither id nor name,
\* stored_in_system "a" and a subsystem; the subsystem has parent "a".
ParentsChosen ==
    /\ buildPc = "Ok"
    /\ Len(files) = 1
    /\ files[1].system = Some([id |-> None, name |-> None])
    /\ files[1].stored_in_system = Some("a")
    /\ Len(files[1].tables) = 1
    /\ systems = <<>>
    /\ Len(subsystems) = 1
    /\ IsSome(subsystems[1].parent_system)
    /\ Unwrap(subsystems[1].parent_system).id = "a"

\* C17, as stated: indices are stable during a build.  A step of the build
\* leaves every entity at the position it has; the step that merges a file
\* appends the file's subsystems in the order in which the file declares
\* them; the links are resolved only when the last file is merged, and that
\* step neither removes nor moves an entity.
Identities(entities) ==
    [i \in 1..Len(entities) |-> <<entities[i].id, entities[i].name>>]

IsPrefix(s, t) == Len(s) <= Len(t) /\ SubSeq(t, 1, Len(s)) = s

PositionsKept ==
    /\ IsPrefix(Identities(systems), Identities(systems'))
    /\ IsPrefix(Identities(subsystems), Identities(subsystems'))

\* the entities of the tables that have an id or a name, in their order
EntitiesOf(tables) ==
    LET valid == SelectSeq(tables, Declared)
    IN  [i \in 1..Len(valid) |->
            <<Unwrap(OptionOr(valid[i].id, valid[i].name)),
              Unwrap(OptionOr(valid[i].name, valid[i].id))>>]

LinkedInPlace ==
    /\ merged = Len(files)
    /\ Identities(systems') = Identities(systems)
    /\ Identities(subsystems') = Identities(subsystems)

AppendedAsDeclared ==
    Identities(NewSubsystems) = EntitiesOf(CurrentFile.tables)

IndicesStable ==
    [][/\ PositionsKept
       /\ MergeStep => AppendedAsDeclared
       /\ LinkStep => LinkedInPlace]_vars

\* C17, amended: of one file, the subsystems of the [[subsystems]] tables
\* are appended first, in their order, then those of the [[subsystem]]
\* tables, in their order.
WithKey(tables, key) == SelectSeq(tables, LAMBDA t : t.key = key)

AppendedByKey ==
    Identities(NewSubsystems) =
        EntitiesOf(WithKey(CurrentFile.tables, "subsystems"))
            \o EntitiesOf(WithKey(CurrentFile.tables, "subsystem"))

IndicesStableByKey ==
    [][/\ PositionsKept
       /\ MergeStep => AppendedByKey
       /\ LinkStep => LinkedInPlace]_vars

\* C17, the case: the first file declares [[subsystem]] "a" and then
\* [[subsystems]] "b", the second file a System and nothing else; in the
\* graph "b" has index 0 and "a" index 1.
MixedKeysBuilt ==
    /\ buildPc = "Ok"
    /\ Len(files) = 2
    /\ Len(files[1].tables) = 2
    /\ files[1].tables[1].key = "subsystem"
    /\ files[1].tables[1].id = Some("a")
    /\ files[1].tables[2].key = "subsystems"
    /\ files[1].tables[2].id = None
    /\ files[1].tables[2].name = Some("b")
    /\ Len(systems) = 1
    /\ Identities(subsystems) = <<<<"b", "b">>, <<"a", "a">>>>

\* C18: on duplicate identifiers the last entity wins.  In the graph that
\* source_to_graph returns, a parent reference whose id some Systems have
\* has the index of the last of them, and a dependency whose id some
\* Subsystems have has the index of the last of them; the resolution of the
\* links leaves every entity, the earlier ones of the same id too, where it
\* was.
WithId(entities, id) == {i \in 1..Len(entities) : entities[i].id = id}

Highest(S) == CHOOSE i \in S : \A j \in S : j <= i

ResolvesToLast(ref, entities) ==
    WithId(entities, ref.id) # {} =>
        ref.index = Some(Highest(WithId(entities, ref.id)) - 1)

Parents(entities) ==
    {Unwrap(entities[i].parent_system) :
        i \in {j \in 1..Len(entities) : IsSome(entities[j].parent_system)}}

LastWins ==
    buildPc = "Ok" =>
        /\ \A ref \in Parents(systems) \cup Parents(subsystems) :
              ResolvesToLast(ref, systems)
        /\ \A i \in 1..Len(subsystems) :
              \A k \in 1..Len(subsystems[i].dependencies) :
                 ResolvesToLast(subsystems[i].dependencies[k].subsystem,
                                subsystems)

EntitiesRemain ==
    /\ Identities(systems') = Identities(systems)
    /\ Identities(subsystems') = Identities(subsystems)

LastEntityWins ==
    /\ []LastWins
    /\ [][LinkStep => EntitiesRemain]_vars

\* C18, the case: two Subsystems "a" are declared, the first with a
\* dependency on "a"; the dependency has index 1, and index 0 still holds
\* the first Subsystem.
DuplicatesBuilt ==
    /\ buildPc = "Ok"
    /\ Len(subsystems) = 2
    /\ subsystems[1].id = "a" /\ subsystems[2].id = "a"
    /\ subsystems[1].dependencies =
            <<[subsystem |-> [id |-> "a", index |-> Some(1)]]>>

\* C19: an unresolved reference is a valid end state.  In the graph that
\* source_to_graph returns, a reference whose id no entity of its namespace
\* has, has index None; the resolution of the links keeps the id of every
\* reference and every entity; the build fails only if a file fails; and
\* the dependency traversal of the visual export makes one edge per
\* dependency whose id some Subsystem has, each to a Subsystem of that id,
\* and none for the others.
Unresolved(ref, entities) ==
    WithId(entities, ref.id) = {} => ref.index = None

ResolvedDependencies ==
    {<<i, k>> \in (1..Len(subsystems)) \X (1..MaxItems) :
        /\ k <= Len(subsystems[i].dependencies)
        /\ WithId(subsystems, subsystems[i].dependencies[k].subsystem.id)
              # {}}

UnresolvedLeftOut ==
    buildPc = "Ok" =>
        /\ \A ref \in Parents(systems) \cup Parents(subsystems) :
              Unresolved(ref, systems)
        /\ \A i \in 1..Len(subsystems) :
              \A k \in 1..Len(subsystems[i].dependencies) :
                 Unresolved(subsystems[i].dependencies[k].subsystem,
                            subsystems)
        /\ LET edges == OutputSubsystemsDependencies(subsystems, 1)
           IN  /\ Len(edges) = Cardinality(ResolvedDependencies)
               /\ \A e \in 1..Len(edges) :
                     WithId(subsystems, edges[e][2]) # {}

FailsOnlyOnFile ==
    buildPc = "Err" => \E i \in 1..Len(files) : files[i].kind # "toml"

ReferenceIds(s) ==
    [parent |-> IF IsSome(s.parent_system)
                THEN Some(Unwrap(s.parent_system).id) ELSE None,
     dependencies |-> [k \in 1..Len(s.dependencies) |->
                            s.dependencies[k].subsystem.id]]

ReferencesRemain ==
    /\ EntitiesRemain
    /\ \A i \in 1..Len(subsystems) :
          ReferenceIds(subsystems'[i]) = ReferenceIds(subsystems[i])
    /\ \A i \in 1..Len(systems) :
          IF IsSome(systems[i].parent_system)
          THEN /\ IsSome(systems'[i].parent_system)
               /\ Unwrap(systems'[i].parent_system).id =
                      Unwrap(systems[i].parent_system).id
          ELSE systems'[i].parent_system = None

UnresolvedIsValid ==
    /\ [](UnresolvedLeftOut /\ FailsOnlyOnFile)
    /\ [][LinkStep => ReferencesRemain]_vars

\* C19, the case: the only Subsystem, "b", depends on "a" and is stored in
\* System "a"; there is no Subsystem "a" and no System "a".  The graph has
\* the Subsystem, both references without index, and the export no edge.
DanglingBuilt ==
    /\ buildPc = "Ok"
    /\ systems = <<>>
    /\ subsystems =
          <<[id |-> "b", name |-> "b",
             parent_system |-> Some([id |-> "a", index |-> None]),
             dependencies |-> <<[subsystem |-> [id |-> "a", index |-> None]]>>]>>
    /\ OutputSubsystemsDependencies(subsystems, 1) = <<>>

\* C20: a file that cannot be read or parsed aborts the build.  If one of
\* the files given to source_to_graph fails, wherever it is in the
\* sequence, the build never gets to merge a file: it returns Err, and no
\* entity of any file is in a Graph.
Failing == {i \in 1..Len(files) : files[i].kind # "toml"}

FailingFileAborts ==
    Failing # {} =>
        /\ buildPc \in {"input", "Err"}
        /\ buildPc = "input" => ENABLED MergeAllFilesRead
        /\ merged = 0
        /\ systems = <<>>
        /\ subsystems = <<>>

\* C20, the case: the first file declares a System and a Subsystem, the
\* second is not TOML; the build has returned Err.
AbortedOnSecond ==
    /\ buildPc = "Err"
    /\ Len(files) = 2
    /\ files[1].kind = "toml"
    /\ IsSome(files[1].system) /\ Declared(Unwrap(files[1].system))
    /\ Len(files[1].tables) = 1 /\ Declared(files[1].tables[1])
    /\ files[2].kind = "invalid"

\* The file each System and each Subsystem of the graph comes from: the
\* files from i on, one entry per [system] table and per subsystem table
\* that has an id or a name.
RECURSIVE SystemOrigins(_)
SystemOrigins(i) ==
    IF i > Len(files) THEN <<>>
    ELSE (IF IsSome(files[i].system) /\ Declared(Unwrap(files[i].system))
          THEN <<i>> ELSE <<>>)
            \o SystemOrigins(i + 1)

RECURSIVE SubsystemOrigins(_)
SubsystemOrigins(i) ==
    IF i > Len(files) THEN <<>>
    ELSE [k \in 1..Len(SelectSeq(files[i].tables, Declared)) |-> i]
            \o SubsystemOrigins(i + 1)

UniqueIds(entities) ==
    \A i, j \in 1..Len(entities) : entities[i].id = entities[j].id => i = j

ResolvesTo(ref, entities) ==
    \A p \in 1..Len(entities) :
        entities[p].id = ref.id => ref.index = Some(p - 1)

NoIndexYet ==
    /\ \A ref \in Parents(systems) \cup Parents(subsystems) : ref.index = None
    /\ \A i \in 1..Len(subsystems) :
          \A k \in 1..Len(subsystems[i].dependencies) :
              subsystems[i].dependencies[k].subsystem.index = None

\* C21: linking is deferred until all files are merged, so resolution does
\* not depend on file order.  No reference has an index before the step that
\* follows the merge of the last file; in the graph that source_to_graph
\* returns every entity has its file, and when the ids of the Systems are
\* unique a parent reference to the id of a System has that System's index,
\* when the ids of the Subsystems are unique a dependency on the id of a
\* Subsystem has that Subsystem's index, whichever files the reference and
\* its target come from.
LinkingIgnoresFileOrder ==
    /\ buildPc \notin {"Ok", "dot"} => NoIndexYet
    /\ buildPc \in {"Ok", "dot"} =>
          /\ Len(SystemOrigins(1)) = Len(systems)
          /\ Len(SubsystemOrigins(1)) = Len(subsystems)
          /\ UniqueIds(systems) =>
                \A ref \in Parents(systems) \cup Parents(subsystems) :
                    ResolvesTo(ref, systems)
          /\ UniqueIds(subsystems) =>
                \A i \in 1..Len(subsystems) :
                    \A k \in 1..Len(subsystems[i].dependencies) :
                        ResolvesTo(subsystems[i].dependencies[k].subsystem,
                                   subsystems)

\* C21, the case: the Subsystem "b" of the first file depends on "a", which
\* the second file declares; the dependency has the index of "a".
ForwardDependencyBuilt ==
    /\ buildPc = "Ok"
    /\ SubsystemOrigins(1) = <<1, 2>>
    /\ subsystems[1].id = "b" /\ subsystems[2].id = "a"
    /\ subsystems[1].dependencies =
            <<[subsystem |-> [id |-> "a", index |-> Some(1)]]>>

\* The positions in the DOT output of the calls of one DotBuilder
\* operation, and the number of clusters open at position i.
Ops(op) == {i \in 1..Len(dot) : dot[i][1] = op}

Depth(i) ==
    Cardinality({j \in Ops("begin_cluster") : j < i})
        - Cardinality({j \in Ops("end_cluster") : j < i})

\* One edge per resolved dependency, from dependency k of subsystem i on.
RECURSIVE EdgesFrom(_, _)
EdgesFrom(i, k) ==
    IF i > Len(subsystems) THEN <<>>
    ELSE IF k > Len(subsystems[i].dependencies) THEN EdgesFrom(i + 1, 1)
    ELSE LET ref == subsystems[i].dependencies[k].subsystem
         IN  (IF IsSome(ref.index)
              THEN << <<"add_edge", 1, subsystems[i].id,
                        subsystems[Unwrap(ref.index) + 1].id>> >>
              ELSE <<>>)
                \o EdgesFrom(i, k + 1)

\* C22: in the visual export every edge is printed at the outermost scope
\* and after every cluster and node.  In what output_to_dot prints, between
\* the beginning and the end of the graph, every begin_cluster, end_cluster
\* and add_node comes before every add_edge; at an add_edge no cluster is
\* open and the indent is that of the root; clusters are closed in the
\* order opposite to their opening; and the edges are, in this order, one
\* per dependency that has an index, by subsystem, then by dependency.
EdgesAtRootAfterWalk ==
    buildPc = "dot" =>
        /\ dot[1] = <<"begin_graph">>
        /\ dot[Len(dot)] = <<"end_graph">>
        /\ \A i \in 2..(Len(dot) - 1) :
              dot[i][1] \in {"begin_cluster", "end_cluster", "add_node",
                             "add_edge"}
        /\ \A i \in 1..Len(dot) : Depth(i) >= 0
        /\ \A i \in Ops("begin_cluster") : dot[i][2] = Depth(i) + 1
        /\ \A i \in Ops("add_node") : dot[i][2] = Depth(i) + 1
        /\ \A e \in Ops("add_edge") :
              /\ \A i \in Ops("begin_cluster") \cup Ops("end_cluster")
                            \cup Ops("add_node") : i < e
              /\ Depth(e) = 0
              /\ dot[e][2] = 1
        /\ SelectSeq(dot, LAMBDA line : line[1] = "add_edge") = EdgesFrom(1, 1)

\* C22, the case: System "a" holds the Subsystems "a" and "b", and "b"
\* depends on "a": the cluster with its two nodes is closed, then comes the
\* edge.
EdgeAfterCluster ==
    /\ buildPc = "dot"
    /\ dot = << <<"begin_graph">>,
                <<"begin_cluster", 1, "a", "a">>,
                <<"add_node", 2, "a", "a">>,
                <<"add_node", 2, "b", "b">>,
                <<"end_cluster", 1>>,
                <<"add_edge", 1, "b", "a">>,
                <<"end_graph">> >>

\* C23, as stated: publishing replaces the snapshot and then acknowledges
\* the configuration.  The statement that acknowledges the configuration
\* is run when the representation of the rebuild is in the cache, and a
\* rebuild that fails does not acknowledge the configuration.
ReplaceThenAcknowledge ==
    [][\A t \in Threads :
          /\ Acknowledges(t) => graph.storage = rbRep[t]
          /\ Fails(t) => config' = config]_vars

\* C23, amended: publishing acknowledges the configuration and then
\* replaces the snapshot.  The configuration is acknowledged only by a
\* rebuild that has built its representation and holds the single-flight
\* lock, the config write lock and the graph write lock, and that step
\* leaves the cache as it is; the next step of that rebuild is the update of
\* the cache with its representation, which cannot fail, and until then it
\* keeps the three locks; a rebuild that fails does not acknowledge the
\* configuration.
BetweenAcknowledgeAndUpdate(t) ==
    /\ config.has_been_acknowledged
    /\ mutexHolder = t /\ cfgWriter = t /\ graphWriter = t
    /\ cfgReaders = {} /\ graphReaders = {}
    /\ rbRep[t] # NoRep
    /\ ENABLED UpgradeGraphUpdate(t)

AcknowledgeStep(t) ==
    /\ mutexHolder = t /\ cfgWriter = t /\ graphWriter = t
    /\ rbRep[t] # NoRep
    /\ graph' = graph

AcknowledgeThenReplace ==
    /\ [](\A t \in Threads :
            rb[t] = "acknowledged" => BetweenAcknowledgeAndUpdate(t))
    /\ [][/\ \A t \in Threads :
               /\ Acknowledges(t) => AcknowledgeStep(t)
               /\ (rb[t] = "acknowledged" /\ rb'[t] # rb[t]) =>
                     /\ Updates(t)
                     /\ graph'.storage = rbRep[t]
                     /\ config' = config
               /\ Fails(t) => config' = config
          /\ (config'.has_been_acknowledged /\ ~config.has_been_acknowledged)
               => \E t \in Threads : Acknowledges(t)]_vars

\* C23, the case: after a change of the configuration and of the sources a
\* rebuild has acknowledged the configuration, and the cache still holds
\* the old representation.
AcknowledgedBeforeReplace ==
    \E t \in Threads :
        /\ rb[t] = "acknowledged"
        /\ config.version = 1
        /\ config.has_been_acknowledged
        /\ graph.storage # rbRep[t]
        /\ graph.version = 0

\* C24: a lock-acquisition failure inside a rebuild aborts the cycle and is
\* reported as an error while the prior state stays valid.  The step in
\* which a rebuild thread finds the single-flight lock or the config lock
\* poisoned (the graph lock is never poisoned: nothing panics under its
\* write guard) makes upgrade_graph return an Err, and leaves the
\* configuration and the cache (representation, version, last_check) as
\* they were.
LockFailure(t) ==
    /\ rb'[t] # rb[t]
    /\ \/ rb[t] = "spawned" /\ mutexPoisoned
       \/ rb[t] = "locked" /\ cfgPoisoned

LockFailureAborts ==
    [][\A t \in Threads :
          LockFailure(t) =>
              rb'[t] = "Err" /\ config' = config /\ graph' = graph]_vars

\* C25: get_name_from_url returns the part of the url after its last '/' or
\* '\' (the whole url when it has neither), with one trailing ".git" removed
\* when the url ends with ".git"; it never fails with an out-of-range slice.
\* The url is the name between a head that is empty or ends with its last
\* '/' or '\' and a tail that is ".git" if the url ends with ".git" and
\* empty otherwise.
IsSlash(c) == c = "/" \/ c = "\\"

NameOf(u, name) ==
    \E h \in 0..Len(u) :
        LET tail == IF EndsWith(u, DotGit) THEN DotGit ELSE <<>>
        IN  /\ u = SubSeq(u, 1, h) \o name \o tail
            /\ h > 0 => IsSlash(u[h])
            /\ \A i \in (h + 1)..Len(u) : ~IsSlash(u[i])

NameFromUrl ==
    /\ urlPc # "panic"
    /\ urlPc = "named" => NameOf(url, repo_name)

\* C25, the case: the url is "\/.git": its last separator is the '/' after
\* the '\', ".git" follows at once, and the slice, which starts where it
\* ends, is the empty name.
NamedBetweenSlashAndDotGit ==
    /\ urlPc = "named"
    /\ url = <<"\\", "/", ".", "g", "i", "t">>
    /\ repo_name = <<>>

\* C26: no configuration change is lost.  A rebuild acknowledges the
\* configuration only when the stored configuration is the one it has built
\* from; from the moment it reads the configuration to the moment it has
\* acknowledged it and updated the cache no configuration is stored; the
\* step that stores a configuration different from the current one leaves
\* it unacknowledged; and a tick that reads an unacknowledged configuration
\* goes on to try_lock, to start a rebuild.
HoldsConfig(t) == rb[t] \in {"building", "built", "publishing", "acknowledged"}

AcknowledgesWhatItRead ==
    \A t \in Threads : Acknowledges(t) => rbCfg[t] = config.storage

ChangeKept ==
    config'.storage # config.storage =>
        /\ ~config'.has_been_acknowledged
        /\ config'.version = config.version + 1
        /\ \A t \in Threads : ~HoldsConfig(t)

UnacknowledgedIsDue ==
    \A a \in Actors :
        (tickPc[a] = "graph" /\ tickPc'[a] # "graph"
            /\ ~config.has_been_acknowledged) => tickPc'[a] = "try"

NoConfigChangeLost ==
    /\ [](\A t \in Threads :
            rb[t] \in {"built", "publishing", "acknowledged"} =>
                rbCfg[t] = config.storage)
    /\ [][AcknowledgesWhatItRead /\ ChangeKept /\ UnacknowledgedIsDue]_vars

\* C26, the case: the configuration was changed to K2 after a first rebuild
\* had published (the cache is at version 1), and the rebuild that has
\* acknowledged it has read K2.
ChangedConfigAcknowledged ==
    \E t \in Threads :
        /\ rb[t] = "acknowledged"
        /\ config.storage = "K2"
        /\ config.version = 1
        /\ rbCfg[t] = "K2"
        /\ graph.version = 1

\* C27: every version change is eventually announced.  As long as no lock
\* is poisoned (a tick then returns its error before it reads the version),
\* whenever the version of the cache differs from the last_version of an
\* actor, a later tick makes them equal, and in the state that tick leaves
\* every entry of the subscriber list has been sent a PleaseUpdate.
NoLockError == ~cfgPoisoned /\ ~mutexPoisoned

Announced(a) ==
    /\ last_version[a] = graph.version
    /\ \A i \in 1..Len(subInfo[a]) : subInfo[a][i].got >= 1

EveryChangeAnnounced ==
    \A a \in FanActors :
        []NoLockError =>
            ((graph.version # last_version[a]) ~> Announced(a))

\* C27, the case: the actor has recorded the version that a rebuild has
\* published and its two subscribers have been sent the message.
ChangeAnnounced ==
    /\ graph.version = 1
    /\ last_version["w1"] = 1
    /\ Len(subscribers["w1"]) = 2
    /\ \A i \in 1..2 : subInfo["w1"][i].got = 1 /\ subInfo["w1"][i].ver0 = 0
    /\ NoLockError

\* C28: the core is deadlock-free.  The configuration lock is never
\* acquired by a holder of the graph lock: the write guard of the graph is
\* only held under the write guard of the configuration, and while a tick
\* holds the read guard of the configuration the graph lock has no writer,
\* so the tick does not wait.  Hence, when every rebuild terminates and the
\* locks are granted fairly, every actor is again and again between two
\* ticks (a tick that has begun returns), every rebuild thread ends, every
\* request that reads the graph returns, and both locks are free again and
\* again for the operations that wait to enter (a reload, a tick, a
\* request).
ConfigBeforeGraph ==
    /\ graphWriter # NoThread => cfgWriter = graphWriter
    /\ cfgReaders # {} => graphWriter = NoThread /\ cfgWriter = NoThread

ConfigNotTakenUnderGraph ==
    /\ \A a \in cfgReaders' \ cfgReaders : a \notin graphReaders
    /\ (cfgWriter' # cfgWriter /\ cfgWriter' # NoThread) =>
            graphWriter # cfgWriter'

Sound(ref, entities) ==
    /\ IsSome(ref.index) =>
          /\ Unwrap(ref.index) \in 0..(Len(entities) - 1)
          /\ entities[Unwrap(ref.index) + 1].id = ref.id
    /\ ref.index = None <=> \A p \in 1..Len(entities) : entities[p].id # ref.id

ResolvedReferencesSound ==
    buildPc \in {"Ok", "dot"} =>
        /\ \A ref \in Parents(systems) \cup Parents(subsystems) :
              Sound(ref, systems)
        /\ \A i \in 1..Len(subsystems) :
              \A k \in 1..Len(subsystems[i].dependencies) :
                 Sound(subsystems[i].dependencies[k].subsystem, subsystems)

\* C29, the case: a Subsystem "a" depends on "a", which resolves to its own
\* position, and is stored in System "a", which no file declares.
ResolvedAndUnresolved ==
    /\ buildPc = "Ok"
    /\ systems = <<>>
    /\ Len(subsystems) = 1
    /\ subsystems[1].id = "a"
    /\ subsystems[1].parent_system = Some([id |-> "a", index |-> None])
    /\ subsystems[1].dependencies =
            <<[subsystem |-> [id |-> "a", index |-> Some(0)]]>>

\* C30: Systems and Subsystems have separate namespaces.  In the graph that
\* source_to_graph returns, the index of a parent reference is a function of
\* its id and the Systems alone, and the index of a dependency a function of
\* its id and the Subsystems alone: none when the collection has no entity
\* of that id, whatever the other collection holds, and else the position of
\* the last entity of that id in the collection.
ResolvedIn(ref, entities) ==
    ref.index = IF WithId(entities, ref.id) = {} THEN None
                ELSE Some(Highest(WithId(entities, ref.id)) - 1)

SeparateNamespaces ==
    buildPc = "Ok" =>
        /\ \A ref \in Parents(systems) \cup Parents(subsystems) :
              /\ ResolvedIn(ref, systems)
              /\ (WithId(systems, ref.id) = {}
                    /\ WithId(subsystems, ref.id) # {}) => ref.index = None
        /\ \A i \in 1..Len(subsystems) :
              \A k \in 1..Len(subsystems[i].dependencies) :
                 LET ref == subsystems[i].dependencies[k].subsystem
                 IN  /\ ResolvedIn(ref, subsystems)
                     /\ (WithId(subsystems, ref.id) = {}
                            /\ WithId(systems, ref.id) # {}) =>
                                ref.index = None

\* C30, the case: System "a" is at position 0 of the Systems and Subsystem
\* "a" at position 1 of the Subsystems; the first Subsystem is stored in
\* "a" and depends on "a": its parent has index 0 and its dependency 1.
SharedIdNotShadowed ==
    /\ buildPc = "Ok"
    /\ Len(systems) = 1 /\ systems[1].id = "a"
    /\ Len(subsystems) = 2
    /\ subsystems[1].id # "a" /\ subsystems[2].id = "a"
    /\ subsystems[1].parent_system = Some([id |-> "a", index |-> Some(0)])
    /\ subsystems[1].dependencies =
            <<[subsystem |-> [id |-> "a", index |-> Some(1)]]>>

\* C31: the recursive walk of the visual export terminates for every Graph.
\* The export of every Graph is defined, also when the parent links of the
\* Systems form a cycle; no call is nested deeper than there are Systems;
\* there are no more clusters of an id than Systems of that id and no more
\* nodes of an id than Subsystems of that id; and every begin_cluster is
\* closed by one end_cluster of its indent, in nested order.
Printed(op, id) == {i \in Ops(op) : dot[i][3] = id}

WalkTerminates ==
    /\ buildPc = "Ok" => ENABLED GraphRepresentationFromDot
    /\ buildPc = "dot" =>
          /\ dot = GraphOutputToDot(systems, subsystems)
          /\ \A i \in Ops("begin_cluster") \cup Ops("add_node") :
                dot[i][2] <= Len(systems) + 1
          /\ \A id \in GraphIds :
                /\ Cardinality(Printed("begin_cluster", id))
                      <= Cardinality(WithId(systems, id))
                /\ Cardinality(Printed("add_node", id))
                      <= Cardinality(WithId(subsystems, id))
          /\ \A i \in 1..Len(dot) : Depth(i) >= 0
          /\ Depth(Len(dot)) = 0
          /\ \A i \in Ops("begin_cluster") : dot[i][2] = Depth(i) + 1
          /\ \A i \in Ops("end_cluster") : dot[i][2] = Depth(i)

\* C31, the case: System "a" is stored in "b" and System "b" in "a", and
\* the Subsystem "a" is stored in "a"; the export is printed.
ParentCycleWalked ==
    /\ buildPc = "dot"
    /\ Len(systems) = 2
    /\ systems[1].id = "a" /\ ParentSystemIndex(systems[1]) = Some(1)
    /\ systems[2].id = "b" /\ ParentSystemIndex(systems[2]) = Some(0)
    /\ Len(subsystems) = 1
    /\ ParentSystemIndex(subsystems[1]) = Some(0)
    /\ dot[Len(dot)] = EndGraph

\* C32, as stated: the visual export is complete.  In what output_to_dot
\* prints there are as many clusters of an id as Systems of that id and as
\* many nodes of an id as Subsystems of that id, the entities without parent
\* index at the root, and both ends of every edge are printed nodes.
ExportComplete ==
    buildPc = "dot" =>
        /\ \A id \in GraphIds :
              /\ Cardinality(Printed("begin_cluster", id))
                    = Cardinality(WithId(systems, id))
              /\ Cardinality(Printed("add_node", id))
                    = Cardinality(WithId(subsystems, id))
        /\ Cardinality({i \in Ops("begin_cluster") : dot[i][2] = 1})
              = Cardinality({i \in 1..Len(systems) :
                                ParentSystemIndex(systems[i]) = None})
        /\ Cardinality({i \in Ops("add_node") : dot[i][2] = 1})
              = Cardinality({i \in 1..Len(subsystems) :
                                ParentSystemIndex(subsystems[i]) = None})
        /\ \A e \in Ops("add_edge") :
              /\ Printed("add_node", dot[e][3]) # {}
              /\ Printed("add_node", dot[e][4]) # {}

\* C33: the parent reference of a System is its file's stored_in_system and
\* nothing else.  The step that merges a file whose [system] table has an
\* id or a name appends one System, whose parent reference has the id
\* stored_in_system of the file and no index, or is absent when the file
\* has no stored_in_system, and gives the file's Subsystems the id of that
\* System as parent, not stored_in_system; the step that merges another
\* file appends no System; and the resolution of the links keeps the id of
\* the parent reference of every System.
SystemParentGiven ==
    LET f == CurrentFile
    IN  IF IsSome(f.system) /\ Declared(Unwrap(f.system))
        THEN /\ Len(systems') = Len(systems) + 1
             /\ SubSeq(systems', 1, Len(systems)) = systems
             /\ systems'[Len(systems')].parent_system =
                   IF IsSome(f.stored_in_system)
                   THEN Some([id |-> Unwrap(f.stored_in_system),
                              index |-> None])
                   ELSE None
             /\ \A i \in 1..Len(NewSubsystems) :
                   NewSubsystems[i].parent_system =
                       Some([id |-> systems'[Len(systems')].id,
                             index |-> None])
        ELSE systems' = systems

SystemParentKept ==
    /\ Len(systems') = Len(systems)
    /\ \A i \in 1..Len(systems) :
          IF IsSome(systems[i].parent_system)
          THEN /\ IsSome(systems'[i].parent_system)
               /\ Unwrap(systems'[i].parent_system).id =
                      Unwrap(systems[i].parent_system).id
          ELSE systems'[i].parent_system = None

SystemParentIsStoredIn ==
    [][(MergeStep => SystemParentGiven) /\ (LinkStep => SystemParentKept)]_vars

\* C33, the case: the file is stored in "a" and declares System "b" and one
\* Subsystem; the System has parent "a", the Subsystem has parent "b".
StoredSystemBuilt ==
    /\ buildPc = "Ok"
    /\ Len(files) = 1
    /\ files[1].stored_in_system = Some("a")
    /\ Len(systems) = 1
    /\ systems[1].id = "b"
    /\ systems[1].parent_system = Some([id |-> "a", index |-> None])
    /\ Len(subsystems) = 1
    /\ subsystems[1].parent_system = Some([id |-> "b", index |-> Some(0)])

\* C34: a failed configuration reload changes nothing.  reload_config only
\* asks for the lock with a configuration it has read from the file, and
\* only configurations are ever stored; a reload of a file that cannot be
\* read or parsed returns an error; and the step by which reload_config
\* returns an error leaves the stored configuration, its version, its
\* acknowledged flag and the snapshot as they are, so that a rebuild is due
\* after it only if one was due before.
ReloadFails == watchPc # "Err" /\ watchPc' = "Err"

FailedReloadChangesNothing ==
    /\ [](watchPc = "write" => watchCfg \in Configs)
    /\ [](config.storage \in Configs)
    /\ [][(watchPc = "waiting" /\ watchPc' # "waiting"
              /\ watchCfg' \notin Configs) => ReloadFails]_vars
    /\ [][ReloadFails =>
            /\ config' = config
            /\ graph' = graph
            /\ IsGraphUpdateRequired' = IsGraphUpdateRequired]_vars

\* C34, the case: a rebuild has acknowledged the changed configuration, then
\* the file is written with something that is not a configuration; the
\* reload has returned an error and no rebuild is due.
InvalidFileIgnored ==
    /\ watchPc = "Err"
    /\ watchCfg = "invalid"
    /\ config.storage = "K2"
    /\ config.has_been_acknowledged
    /\ ~IsGraphUpdateRequired

\* C35: reloading a configuration equal to the stored one does not trigger
\* a rebuild.  The step by which reload_config stores a configuration equal
\* to the stored one leaves the configuration, its version and its
\* acknowledged flag as they are, and a rebuild is due after it only if one
\* was due before; the step that stores a differing one leaves it
\* unacknowledged under the next version; and an unacknowledged
\* configuration only becomes acknowledged by the step of a rebuild that
\* acknowledges it, whatever is reloaded in between.
Stores == watchPc = "write" /\ watchPc' = "Ok"

EqualReloadKeepsFlag ==
    /\ [][(Stores /\ watchCfg = config.storage) =>
            /\ config' = config
            /\ IsGraphUpdateRequired' = IsGraphUpdateRequired]_vars
    /\ [][(Stores /\ watchCfg # config.storage) =>
            /\ config'.storage = watchCfg
            /\ config'.version = config.version + 1
            /\ ~config'.has_been_acknowledged]_vars
    /\ [][(~config.has_been_acknowledged /\ config'.has_been_acknowledged)
            => \E t \in Threads : Acknowledges(t)]_vars

\* C35, the case: the file is written again with the configuration the
\* core has had since it started; reload_config has returned Ok, the
\* configuration is acknowledged and no rebuild is due.
SameConfigReloaded ==
    /\ watchPc = "Ok"
    /\ watchCfg = "K1"
    /\ config.storage = "K1"
    /\ config.version = 0
    /\ config.has_been_acknowledged
    /\ ~IsGraphUpdateRequired

\* C36: a tick that fails sends nothing.  A tick that finds the lock of the
\* configuration poisoned returns an error, and a tick returns an error for
\* no other reason; the steps by which it fails and is logged leave
\* last_version, the subscriber list, the messages sent and the mailboxes as
\* they are, and the actor is then between two ticks; and a tick that gets
\* to compare a version it has not announced records it and sends one
\* message per entry.
TickActs(a) == tickPc'[a] # tickPc[a]

FailedTickSendsNothing ==
    /\ [](\A a \in FanActors : tickPc[a] = "Err" => cfgPoisoned)
    /\ [][\A a \in FanActors :
            (TickActs(a) /\ tickPc[a] = "idle" /\ cfgPoisoned) =>
                tickPc'[a] = "Err"]_vars
    /\ [][\A a \in FanActors :
            (TickActs(a) /\ "Err" \in {tickPc[a], tickPc'[a]}) =>
                /\ tickPc'[a] \in {"Err", "idle"}
                /\ last_version' = last_version
                /\ subscribers' = subscribers
                /\ subInfo' = subInfo
                /\ mailbox' = mailbox]_vars
    /\ [][\A a \in FanActors :
            (TickActs(a) /\ tickPc[a] = "version"
                /\ graph.version # last_version[a]) =>
                /\ last_version'[a] = graph.version
                /\ Got(a)' = [i \in 1..Len(subscribers[a]) |-> Got(a)[i] + 1]
         ]_vars

\* C36, the case: version 1 is published and not yet announced to the
\* subscriber of the actor when a build panics; the tick has failed.
TickFailedUnannounced ==
    /\ tickPc["w1"] = "Err"
    /\ graph.version = 1
    /\ last_version["w1"] = 0
    /\ Len(subscribers["w1"]) = 1
    /\ Got("w1") = <<0>>

\* ------------------------------------------------ the websocket sessions
\* C37: a session is subscribed while it is alive.  Only the actor whose
\* address the session holds ever hears of it.  A session that is alive has
\* sent its Subscribe and nothing else: either the message waits in the
\* mailbox of the actor or the list has exactly one entry for the session.
\* A session that has stopped has sent its Unsubscribe after its Subscribe:
\* while the Unsubscribe waits it stands behind the Subscribe, if that one
\* still waits, and once it is handled the list has no entry for the
\* session and no message of the session is left.
Pending(a, kind, h) ==
    {i \in 1..Len(inbox[a]) : inbox[a][i] = Message(kind, h)}

Unheard(a, h) ==
    /\ Occurrences(subscribers[a], h) = 0
    /\ Pending(a, "Subscribe", h) = {}
    /\ Pending(a, "Unsubscribe", h) = {}

SubscribedWhileAlive ==
    \A h \in Sessions :
        LET m == update_master[h]
            sub == Pending(m, "Subscribe", h)
            unsub == Pending(m, "Unsubscribe", h)
            n == Occurrences(subscribers[m], h)
        IN  IF m = NoActor
            THEN h \notin closed /\ \A a \in Actors : Unheard(a, h)
            ELSE /\ \A a \in Actors \ {m} : Unheard(a, h)
                 /\ h \notin closed =>
                        unsub = {} /\ Cardinality(sub) + n = 1
                 /\ h \in closed /\ unsub # {} =>
                        /\ Cardinality(unsub) = 1
                        /\ Cardinality(sub) + n = 1
                        /\ \A i \in sub, j \in unsub : i < j
                 /\ h \in closed /\ unsub = {} => Unheard(m, h)

\* C37, the case: h1 was subscribed and has stopped, its Unsubscribe is
\* handled and its entry gone; h2 is alive and in the list; h3 stopped
\* before the other actor had handled its Subscribe, and both its messages
\* wait in order.
StoppedSessionUnsubscribed ==
    /\ update_master = [h \in Sessions |-> IF h = "h3" THEN "w2" ELSE "w1"]
    /\ closed = {"h1", "h3"}
    /\ "h1" \in unsubscribed
    /\ subscribers["w1"] = <<"h2">>
    /\ inbox["w1"] = <<>>
    /\ subscribers["w2"] = <<>>
    /\ inbox["w2"] = <<Message("Subscribe", "h3"), Message("Unsubscribe", "h3")>>

\* ---------------------------------------------------- the graph rebuilt
\* C38: the build is deterministic.  The rebuild threads that were given
\* the same files have built the same representation: the same Systems and
\* Subsystems, in the same order, with the same indices in their
\* references, and the same DOT.  The first of them replaces what was
\* stored before it; the update of every later one compares equal, and
\* leaves the version, the content and the flag as they are.
StoresRepresentation(t) == rbRep[t] = NoRep /\ rbRep'[t] # NoRep

WithIds(deps) ==
    LET kept == SelectSeq(deps, LAMBDA d : IsSome(d.id))
    IN  [k \in 1..Len(kept) |-> Unwrap(kept[k].id)]

AsDeclared(tables) ==
    LET valid == SelectSeq(tables, Declared)
    IN  [i \in 1..Len(valid) |->
            [id |-> Unwrap(OptionOr(valid[i].id, valid[i].name)),
             dependencies |-> WithIds(valid[i].dependencies)]]

AsBuilt(subs) ==
    [i \in 1..Len(subs) |->
        [id |-> subs[i].id,
         dependencies |-> ReferenceIds(subs[i]).dependencies]]

NeverFailsOnEntries == buildPc # "Err"

MalformedSkipped ==
    /\ []NeverFailsOnEntries
    /\ [][MergeStep =>
            AsBuilt(NewSubsystems) = AsDeclared(CurrentFile.tables)]_vars

\* C39, amended: the Subsystems of the tables under the key subsystems come
\* first, in their order, then those of the tables under the key subsystem,
\* in their order; the dependencies written under the key dependencies come
\* first, in their order, then those written under the key dependency, in
\* their order.
AsDeclaredByKey(tables) ==
    LET ordered == WithKey(tables, "subsystems") \o WithKey(tables, "subsystem")
        valid == SelectSeq(ordered, Declared)
    IN  [i \in 1..Len(valid) |->
            [id |-> Unwrap(OptionOr(valid[i].id, valid[i].name)),
             dependencies |->
                 WithIds(WithKey(valid[i].dependencies, "dependencies")
                            \o WithKey(valid[i].dependencies, "dependency"))]]

MalformedSkippedByKey ==
    /\ []NeverFailsOnEntries
    /\ [][MergeStep =>
            AsBuilt(NewSubsystems) = AsDeclaredByKey(CurrentFile.tables)]_vars

\* C39, the case: the file declares a table without id and name and then a
\* table named "b", which has a dependency without id and then one on "a";
\* one Subsystem is built, "b", with its dependency on "a".
SiblingsOfMalformedKept ==
    /\ buildPc = "merge"
    /\ merged = 1
    /\ Len(files[1].tables) = 2
    /\ files[1].tables[1].id = None
    /\ files[1].tables[1].name = None
    /\ files[1].tables[2].dependencies =
            << [key |-> "dependencies", id |-> None],
               [key |-> "dependency", id |-> Some("a")] >>
    /\ AsBuilt(subsystems) = << [id |-> "b", dependencies |-> <<"a">>] >>

\* ------------------------------------------------ the acknowledged flag
\* C40, as stated: an Updatable that still has version 0 is acknowledged;
\* the first rebuild thread is spawned by a tick only when more than the
\* interval has elapsed since Core::new (a tick that spawns nothing leaves
\* everything as it is, so every tick before the first spawn is in the
\* position of the first tick); the flag of an Updatable goes from true to
\* false only in a step that stores different content under the next
\* version, and from false to true only in the step of a rebuild thread
\* that calls acknowledge, which is never done for the graph.
FreshIsAcknowledged ==
    /\ config.version = 0 => config.has_been_acknowledged
    /\ graph.version = 0 => graph.has_been_acknowledged

FirstSpawn == ~everSpawned /\ everSpawned'

FlagFalls(u, v) ==
    u.has_been_acknowledged /\ ~v.has_been_acknowledged =>
        v.storage # u.storage /\ v.version = u.version + 1

FlagRises(u, v) == ~u.has_been_acknowledged /\ v.has_been_acknowledged

FlagByUpdateAndAcknowledge ==
    /\ FlagFalls(config, config')
    /\ FlagFalls(graph, graph')
    /\ FlagRises(config, config') =>
            /\ \E t \in Threads : Acknowledges(t)
            /\ config'.storage = config.storage
            /\ config'.version = config.version
    /\ ~FlagRises(graph, graph')

FreshWaitsForInterval ==
    /\ []FreshIsAcknowledged
    /\ [][FirstSpawn => graph.last_check > Interval]_vars
    /\ [][FlagByUpdateAndAcknowledge]_vars

\* C40, amended: the first rebuild thread is spawned when more than the
\* interval has elapsed since Core::new, or when the configuration has
\* been reloaded with different content and waits to be acknowledged.
FreshWaitsForIntervalOrReload ==
    /\ []FreshIsAcknowledged
    /\ [][FirstSpawn =>
            \/ graph.last_check > Interval
            \/ config.version > 0 /\ ~config.has_been_acknowledged]_vars
    /\ [][FlagByUpdateAndAcknowledge]_vars

\* C40, the case: the configuration was reloaded with different content
\* before any tick had started a rebuild, and a tick has spawned the first
\* rebuild thread although no time has passed since Core::new.
FirstRebuildAfterReload ==
    /\ everSpawned
    /\ rb[1] = "spawned"
    /\ \A t \in Threads \ {1} : rb[t] = "exited"
    /\ graph.version = 0
    /\ graph.last_check = 0
    /\ config.version = 1
    /\ ~config.has_been_acknowledged

====
